---- MODULE Spec2Model ----
(***************************************************************************)
(* State-machine model of the chat backend (NathanontP/chatbot).           *)
(*                                                                         *)
(* The repository holds six generations of the same Express service:       *)
(*   "P"   plain relay                     src/unnamed/part_000   1..63    *)
(*   "E75" embedding retrieval, 0.75       src/server.js          1..192   *)
(*   "E90" embedding retrieval, 0.9        src/unnamed/part_000  65..259   *)
(*   "J"   embedding + JSON answer guard   src/unnamed/part_001            *)
(*   "L"   lexical retrieval               src/unnamed/part_002            *)
(*   "G"   lexical + language guard        src/server.js        194..637   *)
(* One process runs one generation; `variant' is fixed in Init.            *)
(*                                                                         *)
(* Scheduling: Node runs a handler without interruption from one network   *)
(* await to the next.  `await ensureKBLoaded()' on the path that performs  *)
(* no embedding call resumes in the same microtask drain, before any I/O   *)
(* callback, so each action below runs a handler from one upstream await   *)
(* (or arrival) to the next upstream await (or the response).              *)
(*                                                                         *)
(* Texts are sequences of one-character strings.  The message of a request *)
(* is a string or absent, and so is the content of a 2xx completion.       *)
(***************************************************************************)
EXTENDS Integers, Sequences, FiniteSets, TLC

(***************************************************************************)
(* Bounds of the model.                                                    *)
(***************************************************************************)
MaxReq == 2
MaxMtime == 2
MaxTime == 900
MaxEvents == 3

(***************************************************************************)
(* Text helpers.                                                           *)
(***************************************************************************)
IsWS(c) == c \in {" ", "\n", "\t", "\r"}

RECURSIVE TrimStart(_)
TrimStart(s) ==
  IF s = <<>> THEN <<>>
  ELSE IF IsWS(Head(s)) THEN TrimStart(Tail(s)) ELSE s

RECURSIVE TrimEnd(_)
TrimEnd(s) ==
  IF s = <<>> THEN <<>>
  ELSE IF IsWS(s[Len(s)]) THEN TrimEnd(SubSeq(s, 1, Len(s) - 1)) ELSE s

\* String.prototype.trim
Trim(s) == TrimEnd(TrimStart(s))

\* positions of the newlines matched by /\n(?=# )/
SectionCuts(text) ==
  { i \in 1..Len(text) :
      /\ text[i] = "\n"
      /\ i + 2 <= Len(text)
      /\ text[i + 1] = "#"
      /\ text[i + 2] = " " }

\* text.split(/\n(?=# )/): the pieces between the matched newlines
RECURSIVE SplitFrom(_, _, _)
SplitFrom(text, from, cuts) ==
  IF cuts = {} THEN << SubSeq(text, from, Len(text)) >>
  ELSE LET c == CHOOSE x \in cuts : \A y \in cuts : x <= y
       IN  << SubSeq(text, from, c - 1) >> \o SplitFrom(text, c + 1, cuts \ {c})

RECURSIVE TrimAndDropEmpty(_)
TrimAndDropEmpty(parts) ==
  IF parts = <<>> THEN <<>>
  ELSE LET t == Trim(Head(parts))
       IN  (IF t = <<>> THEN <<>> ELSE << t >>) \o TrimAndDropEmpty(Tail(parts))

\* split at heading lines, trim every piece, drop the empty ones
chunkTextBySection(text) == TrimAndDropEmpty(SplitFrom(text, 1, SectionCuts(text)))

splitSections(md) == TrimAndDropEmpty(SplitFrom(md, 1, SectionCuts(md)))

(***************************************************************************)
(* Data of the model.                                                      *)
(***************************************************************************)
Variants == {"P", "E75", "E90", "J", "L", "G"}
IsThresholded(v) == v \in {"E75", "E90"}
IsEmbedding(v) == v \in {"E75", "E90", "J"}
IsLexical(v) == v \in {"L", "G"}

\* contents the knowledge file can hold: "# A\na\n# B " and "# C"; every
\* write replaces the one by the other
FileText(ver) ==
  IF ver = 1 THEN << "#", " ", "A", "\n", "a", "\n", "#", " ", "B", " " >>
  ELSE << "#", " ", "C" >>
OtherVersion(ver) == IF ver = 1 THEN 2 ELSE 1

\* req.body.message as sent by the client: absent (or ""), "  ", " hi ",
\* "menu" and "a menu" for the lexical variants, and one Thai letter for the
\* language guard
NoMessage == << >>
RawMessages(v) ==
  { NoMessage, << " ", " " >>, << " ", "h", "i", " " >> } \cup
  (IF IsLexical(v) THEN { << "m", "e", "n", "u" >>, << "a", " ", "m", "e", "n", "u" >> }
   ELSE {}) \cup
  (IF v = "G" THEN { << "U+0E01" >> } ELSE {})

\* embedding vectors of the upstream model: a chunk's vector is a function of
\* its text (section "B" differs from "A" and "C"), a query's is any of three;
\* their cosines are 1, 0.95, 0.89 and 0.71, on both sides of both cut-offs
EmbeddingOf(text) ==
  IF Len(text) >= 3 /\ text[3] = "B" THEN << 1, 1 >> ELSE << 1, 0 >>
QueryVectors == { << 1, 0 >>, << 1, 1 >>, << 2, 1 >> }
Arr(x) == [kind |-> "array", v |-> x]
Undefined == [kind |-> "undefined", v |-> << >>]
Null == [kind |-> "null", v |-> << >>]

\* the fixed replies of the handlers
NoInfoReply == << "N", "O", "I", "N", "F", "O" >>
JsonFallbackReply == << "F", "A", "L", "L", "B", "A", "C", "K" >>
NoReplyText == << "(", ")" >>
SorryReplyL == << "S", "R", "Y", "L" >>
SorryReplyG == << "S", "R", "Y", "G" >>
NoReply == << >>

(***************************************************************************)
(* Similarity.  A score is kept exactly as sign * sqrt(sq / den); the      *)
(* 1e-8 added to the denominator only turns 0/0 into 0 and lowers every    *)
(* other score by less than the gap between two scores of integer vectors  *)
(* of this size, so it never changes a comparison made below.              *)
(***************************************************************************)
RECURSIVE SumTo(_, _, _)
SumTo(a, b, n) == IF n = 0 THEN 0 ELSE a[n] * b[n] + SumTo(a, b, n - 1)

Sign(s) == IF s > 0 THEN 1 ELSE IF s = 0 THEN 0 ELSE -1

ScoreOf(s, na, nb) ==
  IF na * nb = 0 THEN [err |-> FALSE, sgn |-> 0, sq |-> 0, den |-> 1]
  ELSE [err |-> FALSE, sgn |-> Sign(s), sq |-> s * s, den |-> na * nb]

TypeErrorScore == [err |-> TRUE, sgn |-> 0, sq |-> 0, den |-> 1]
MinusOne == [err |-> FALSE, sgn |-> -1, sq |-> 1, den |-> 1]

\* cosine(a, b) of the thresholded variants: a.length and b[i] throw a
\* TypeError on an undefined or null operand
cosine(a, b) ==
  IF a.kind # "array" THEN TypeErrorScore
  ELSE IF b.kind # "array" /\ Len(a.v) > 0 THEN TypeErrorScore
  ELSE ScoreOf(SumTo(a.v, b.v, Len(a.v)), SumTo(a.v, a.v, Len(a.v)),
               SumTo(b.v, b.v, Len(a.v)))

Min(x, y) == IF x <= y THEN x ELSE y

\* safeCosine(a, b) of the JSON-guarded variant
safeCosine(a, b) ==
  IF a.kind # "array" \/ b.kind # "array" \/ Len(a.v) = 0 \/ Len(b.v) = 0
  THEN MinusOne
  ELSE LET n == Min(Len(a.v), Len(b.v))
       IN  ScoreOf(SumTo(a.v, b.v, n), SumTo(a.v, a.v, n), SumTo(b.v, b.v, n))

\* x > y on scores
ScoreGT(x, y) ==
  IF x.sgn # y.sgn THEN x.sgn > y.sgn
  ELSE IF x.sgn = 1 THEN x.sq * y.den > y.sq * x.den
  ELSE IF x.sgn = -1 THEN x.sq * y.den < y.sq * x.den
  ELSE FALSE

\* a cut-off of 0.5 in the thresholded variants
ThresholdHalf(v) ==
  IF v \in {"E75", "E90"} THEN [n |-> 1, d |-> 2] ELSE [n |-> 0, d |-> 1]

\* the cut-off of the variant as a fraction n/d: 0.75, 0.9, and 0 in "J"
Threshold(v) ==
  IF v = "E75" THEN [n |-> 3, d |-> 4]
  ELSE IF v = "E90" THEN [n |-> 9, d |-> 10]
  ELSE [n |-> 0, d |-> 1]

\* score > n/d
AboveThreshold(x, t) == x.sgn = 1 /\ x.sq * t.d * t.d > t.n * t.n * x.den

TopK == 4

\* Array.prototype.sort((a, b) => b.score - a.score): stable, descending
RECURSIVE SortDesc(_)
SortDesc(xs) ==
  IF xs = <<>> THEN <<>>
  ELSE LET best == CHOOSE i \in 1..Len(xs) :
                     /\ \A j \in 1..Len(xs) : ~ScoreGT(xs[j].score, xs[i].score)
                     /\ \A j \in 1..(i - 1) : ScoreGT(xs[i].score, xs[j].score)
           rest == [k \in 1..(Len(xs) - 1) |-> IF k < best THEN xs[k] ELSE xs[k + 1]]
       IN  << xs[best] >> \o SortDesc(rest)

RECURSIVE FilterAbove(_, _)
FilterAbove(xs, t) ==
  IF xs = <<>> THEN <<>>
  ELSE (IF AboveThreshold(Head(xs).score, t) THEN << Head(xs) >> ELSE <<>>)
       \o FilterAbove(Tail(xs), t)

\* one entry more than asked for
SliceOneMore(xs, n) == SubSeq(xs, 1, Min(Len(xs), n + 1))

\* Array.prototype.slice(0, n)
Slice(xs, n) == SubSeq(xs, 1, Min(Len(xs), n))

\* KB.map(it => ({...it, score: cosine(qEmb, it.embedding)}))
Scored(kb, qEmb, v) ==
  [i \in 1..Len(kb) |->
     [idx |-> i, text |-> kb[i].text,
      score |-> IF v = "J" THEN safeCosine(qEmb, kb[i].embedding)
                ELSE cosine(qEmb, kb[i].embedding)]]

ScoringThrows(kb, qEmb, v) ==
  \E i \in 1..Len(kb) : Scored(kb, qEmb, v)[i].score.err

\* the chunks placed in the context, in order; entry i is rendered as
\* "[i]\n" + text, so the context string is empty iff this list is empty
TopChunks(kb, qEmb, v) ==
  IF v = "J"
  THEN Slice(SortDesc(FilterAbove(Scored(kb, qEmb, v), Threshold(v))), TopK)
  ELSE Slice(FilterAbove(SortDesc(Scored(kb, qEmb, v)), Threshold(v)), TopK)

ContextOf(top) == [i \in 1..Len(top) |-> [ord |-> i, text |-> top[i].text]]

(***************************************************************************)
(* State.                                                                  *)
(***************************************************************************)
VARIABLES
  variant,         \* which generation of the service this process runs
  apiKey,          \* OPENROUTER_API_KEY is set
  file,            \* the knowledge file on disk: [exists, mtime, ver]
  KB,              \* chunk cache of the embedding variants
  kbSrc,           \* history: mtime of the file version KB was built from (0: none)
  lastKBModified,  \* recorded modification time
  RAW_TEXT,        \* document cache of the lexical variants
  fsEvent,         \* a directory change event for the knowledge file is queued
  watchTimer,      \* the debounce timer of watchKB is pending
  proc,            \* proc[0]: the startup load; proc[1..MaxReq]: /chat requests
  quiet,           \* history: an ensureKBLoaded call has completed and the file
                   \* has not changed since that call looked at it
  failed,          \* history: the embedding call of a reload has failed and the
                   \* file has not changed since
  trace,           \* history: the last upstream completion answer (traced runs)
  call,            \* a function of the service applied on its own: name, arguments
  ret,             \* what that application returned
  watch            \* the directory watcher in time: the clock (ms), the timer
                   \* watchTimer refers to, the timers pending in the event
                   \* loop, and as history the events seen and the reloads run

vars == << variant, apiKey, file, KB, kbSrc, lastKBModified, RAW_TEXT,
           fsEvent, watchTimer, proc, quiet, failed, trace, call, ret, watch >>

\* no function is applied on its own
NoCall == [fn |-> "none"]
NotReturned == [done |-> FALSE]
\* the watcher at module load: no timer was ever set (watchTimer = null)
NoWatch ==
  [now |-> 0, handle |-> 0, timers |-> {}, events |-> << >>, reloads |-> << >>]

\* what an ensureKBLoaded check sees of the file: its mtime, 0 when absent
CurrentObs == IF file.exists THEN file.mtime ELSE 0

Boot == 0
Requests == 1..MaxReq
Procs == {Boot} \cup Requests

\* no completion request composed (tenths of the sampling temperature)
NoPrompt == [mode |-> "none", temperature |-> 0, context |-> << >>,
             shopName |-> << >>, lineId |-> << >>]

\* a request (or the startup load): where its handler stands (pc), its trimmed
\* message, its response (status, reply, detail, nResp), the outbound calls it
\* has started (nKb, nQ, nChat, nTr), the locals it holds across an await
\* (chunks, rmt, ctx, askKB, lang), and history: what its ensureKBLoaded check
\* saw of the file (obs: the mtime, 0 for absent), the cache it scored against
\* (scored), and whether every score was at most the cut-off (low)
IdleProc ==
  [pc |-> "idle", msg |-> << >>, status |-> 0, reply |-> NoReply,
   detail |-> "none", nResp |-> 0, nKb |-> 0, nQ |-> 0, nChat |-> 0, nTr |-> 0,
   obs |-> -1, chunks |-> << >>, rmt |-> 0, ctx |-> << >>, scored |-> "none",
   low |-> FALSE, askKB |-> FALSE, lang |-> "none", prompt |-> NoPrompt]

\* res.status(code).json(...): the one place a handler answers
Respond(p, code, reply, detail) ==
  [p EXCEPT !.pc = "done", !.status = code, !.reply = reply, !.detail = detail,
            !.nResp = @ + 1, !.chunks = << >>, !.rmt = 0, !.ctx = << >>]

\* a handler without its catch block: a throw after the completion call is
\* an unhandled rejection, and nothing is sent
FinishUnlessThrown(p, code, reply, detail) ==
  IF code = 500 THEN [p EXCEPT !.pc = "unhandled"]
  ELSE [Respond(p, code, reply, detail)
          EXCEPT !.obs = -1, !.scored = "none", !.low = FALSE, !.msg = << >>,
                 !.askKB = FALSE, !.lang = "none", !.prompt = NoPrompt]

\* the answer that follows the completion (or translation) call: the locals of
\* the handler go out of scope with it
Finish(p, code, reply, detail) ==
  [Respond(p, code, reply, detail)
     EXCEPT !.obs = -1, !.scored = "none", !.low = FALSE, !.msg = << >>,
            !.askKB = FALSE, !.lang = "none", !.prompt = NoPrompt]

\* the chunk splitter of the variant
SplitOf(v, text) == IF v = "J" THEN splitSections(text) ELSE chunkTextBySection(text)

(***************************************************************************)
(* Upstream answers.                                                       *)
(***************************************************************************)
\* POST /embeddings: it fails (non-2xx, timeout, network), or answers 200
\* with the vectors of the first k inputs (k = 0 also stands for a body
\* without data)
ChunkEmbedOutcomes(texts) ==
  { [ok |-> FALSE, embs |-> << >>] } \cup
  { [ok |-> TRUE, embs |-> [i \in 1..k |-> EmbeddingOf(texts[i])]] : k \in 0..Len(texts) }

QueryEmbedOutcomes ==
  { [ok |-> FALSE, embs |-> << >>], [ok |-> TRUE, embs |-> << >>] } \cup
  { [ok |-> TRUE, embs |-> << q >>] : q \in QueryVectors }

\* texts the chat model can produce: " ok ", " ", and one Thai letter where
\* the language of the reply matters
ModelTexts(v) ==
  { << " ", "o", "k", " " >>, << " " >> } \cup
  (IF v = "G" THEN { << "U+0E01" >> } ELSE {})

JUndef == [t |-> "undef", b |-> FALSE, n |-> 0, s |-> << >>]
JNull == [t |-> "null", b |-> FALSE, n |-> 0, s |-> << >>]
JBool(x) == [t |-> "bool", b |-> x, n |-> 0, s |-> << >>]
JNum(x) == [t |-> "num", b |-> FALSE, n |-> x, s |-> << >>]
JStr(x) == [t |-> "str", b |-> FALSE, n |-> 0, s |-> x]
JScalars ==
  { JUndef, JNull, JBool(TRUE), JBool(FALSE), JNum(0), JNum(5),
    JStr(<< >>), JStr(<< " " >>), JStr(<< "o", "k" >>), JStr(<< " ", "o", "k", " " >>) }
JObj(na, ans) == [t |-> "obj", no_answer |-> na, answer |-> ans]
JObjects ==
  { JObj(na, ans) : na \in {JUndef, JBool(TRUE), JBool(FALSE)}, ans \in JScalars }

\* the JSON values the model answers with when it follows the prompt of "J",
\* and one it should not produce
PromptedJson ==
  { JObj(JBool(TRUE), JUndef), JObj(JUndef, JStr(<< " ", "o", "k", " " >>)),
    JObj(JBool(FALSE), JStr(<< "o", "k" >>)) }

JsonOutput(j) == [kind |-> "json", s |-> << "{", "}" >>, val |-> j]

\* choices[0].message.content of a 2xx completion (a string, or absent):
\* absent, prose, or the text of a JSON value
ModelOutputs(v) ==
  { [kind |-> "none", s |-> << >>, val |-> JUndef] } \cup
  { [kind |-> "text", s |-> t, val |-> JUndef] : t \in ModelTexts(v) \cup { << >> } } \cup
  (IF v = "J" THEN { JsonOutput(j) : j \in PromptedJson } ELSE {})

\* an upstream completion answer: its status class, whether an error body came
\* with it, and the content of a 2xx
ChatOutcomes(v) ==
  { [status |-> "2xx", body |-> TRUE, out |-> o] : o \in ModelOutputs(v) } \cup
  { [status |-> st, body |-> b, out |-> [kind |-> "none", s |-> << >>, val |-> JUndef]] :
      st \in {"4xx", "5xx"}, b \in BOOLEAN } \cup
  { [status |-> "timeout", body |-> FALSE,
     out |-> [kind |-> "none", s |-> << >>, val |-> JUndef]] }

\* the completion answers of a traced run: every JSON value of the envelope
TracedOutcomes(v) ==
  ChatOutcomes(v) \cup
  (IF v = "J"
   THEN { [status |-> "2xx", body |-> TRUE, out |-> JsonOutput(j)] :
            j \in JObjects \cup {JNull, JNum(5)} }
   ELSE {})

\* no completion answer recorded
NoTrace == [status |-> "none", body |-> FALSE,
            out |-> [kind |-> "none", s |-> << >>, val |-> JUndef]]

\* err.response?.data || err.message in a catch block
CaughtDetail(o) == IF o.body /\ o.status # "timeout" THEN "upstream-body" ELSE "message"

\* result.data?.choices?.[0]?.message?.content
ContentOf(o) == o.out.s

(***************************************************************************)
(* JSON answer envelope of the "J" variant.                                *)
(***************************************************************************)
Truthy(j) ==
  IF j.t = "bool" THEN j.b
  ELSE IF j.t = "num" THEN j.n # 0
  ELSE IF j.t = "str" THEN j.s # << >>
  ELSE j.t = "obj"

\* String(x)
StringOf(j) ==
  IF j.t = "str" THEN j.s
  ELSE IF j.t = "num" THEN (IF j.n = 0 THEN << "0" >> ELSE << "5" >>)
  ELSE IF j.t = "bool" THEN (IF j.b THEN << "t", "r", "u", "e" >>
                             ELSE << "f", "a", "l", "s", "e" >>)
  ELSE << "n", "u", "l", "l" >>

\* try { payload = JSON.parse(rawText) } catch {}: payload stays {} on a throw
ParsePayload(out) ==
  IF out.kind = "json" THEN out.val ELSE JObj(JUndef, JUndef)

\* payload?.field
Field(payload, name) ==
  IF payload.t # "obj" THEN JUndef
  ELSE IF name = "no_answer" THEN payload.no_answer ELSE payload.answer

\* a guard that tests whether the fields are present, not their values
GuardedReplyByPresence(out) ==
  LET payload == ParsePayload(out)
  IN  IF Field(payload, "no_answer") # JUndef \/ Field(payload, "answer") = JUndef
      THEN JsonFallbackReply
      ELSE Trim(StringOf(Field(payload, "answer")))

\* the reply of the JSON guard
GuardedReply(out) ==
  LET payload == ParsePayload(out)
  IN  IF Truthy(Field(payload, "no_answer")) \/ ~Truthy(Field(payload, "answer"))
      THEN JsonFallbackReply
      ELSE Trim(StringOf(Field(payload, "answer")))

(***************************************************************************)
(* ensureKBLoaded of the embedding variants, up to its embedding call.     *)
(***************************************************************************)
\* the same without the fs.existsSync test
EnsureDecisionNoExistsTest ==
  IF file.mtime # lastKBModified THEN "reload" ELSE "fresh"

\* what the synchronous part decides: the cache is emptied (file absent), a
\* reload starts (mtime differs from the recorded one), or nothing happens
EnsureDecision ==
  IF ~file.exists THEN "absent"
  ELSE IF file.mtime # lastKBModified THEN "reload"
  ELSE "fresh"

\* the new entries put after those the cache holds
BuiltKBAppended(v, chunks, o) ==
  KB \o [i \in 1..Len(chunks) |->
          [text |-> chunks[i],
           embedding |-> IF o.ok /\ i <= Len(o.embs) THEN Arr(o.embs[i])
                         ELSE IF v = "J" THEN Null ELSE Undefined]]

\* KB = chunks.map((t, i) => ({ text: t, embedding: embs[i] })); "J" writes
\* embs[i] || null, and its embed() pads with null and maps a failure to nulls
BuiltKB(v, chunks, o) ==
  [i \in 1..Len(chunks) |->
     [text |-> chunks[i],
      embedding |-> IF o.ok /\ i <= Len(o.embs) THEN Arr(o.embs[i])
                    ELSE IF v = "J" THEN Null ELSE Undefined]]

\* the handler after `await ensureKBLoaded()', up to its next upstream call
AfterKB(p, kb) ==
  IF Len(kb) > 0
  THEN [p EXCEPT !.pc = "qEmbed", !.nQ = @ + 1, !.chunks = << >>, !.rmt = 0]
  ELSE IF variant = "J"
  THEN [p EXCEPT !.pc = "completion", !.nChat = @ + 1, !.ctx = << >>,
                 !.chunks = << >>, !.rmt = 0]
  ELSE [Respond(p, 200, NoInfoReply, "none") EXCEPT !.ctx = << >>, !.low = TRUE]

(***************************************************************************)
(* File system.                                                            *)
(***************************************************************************)
\* the knowledge file is written (or created): new content, later mtime
FileWrite ==
  /\ file.mtime < MaxMtime
  /\ file' = [exists |-> TRUE, mtime |-> file.mtime + 1, ver |-> OtherVersion(file.ver)]
  /\ fsEvent' = (IF IsLexical(variant) THEN TRUE ELSE fsEvent)
  /\ quiet' = FALSE
  /\ failed' = FALSE
  /\ UNCHANGED << variant, apiKey, KB, kbSrc, lastKBModified, RAW_TEXT,
                  watchTimer, proc, trace, call, ret, watch >>

\* the knowledge file is removed
FileDelete ==
  /\ file.exists
  /\ file' = [file EXCEPT !.exists = FALSE]
  /\ fsEvent' = (IF IsLexical(variant) THEN TRUE ELSE fsEvent)
  /\ quiet' = FALSE
  /\ failed' = FALSE
  /\ UNCHANGED << variant, apiKey, KB, kbSrc, lastKBModified, RAW_TEXT,
                  watchTimer, proc, trace, call, ret, watch >>

(***************************************************************************)
(* Characters.  A character outside ASCII is written by its code point,    *)
(* "U+0E01" for the Thai letter ko kai.                                    *)
(***************************************************************************)
\* table[key], or the default when the table has no such key
Lookup(table, key, default) ==
  IF key \in DOMAIN table THEN table[key] ELSE default

Code ==
  " " :> 32 @@ "#" :> 35 @@ "(" :> 40 @@ ")" :> 41 @@ "," :> 44 @@
  "-" :> 45 @@ "." :> 46 @@ ":" :> 58 @@ "?" :> 63 @@ "_" :> 95 @@
  "{" :> 123 @@ "}" :> 125 @@ "0" :> 48 @@ "1" :> 49 @@ "2" :> 50 @@
  "3" :> 51 @@ "4" :> 52 @@ "5" :> 53 @@ "6" :> 54 @@ "7" :> 55 @@
  "8" :> 56 @@ "9" :> 57 @@ "A" :> 65 @@ "B" :> 66 @@ "C" :> 67 @@
  "D" :> 68 @@ "E" :> 69 @@ "F" :> 70 @@ "G" :> 71 @@ "H" :> 72 @@
  "I" :> 73 @@ "J" :> 74 @@ "K" :> 75 @@ "L" :> 76 @@ "M" :> 77 @@
  "N" :> 78 @@ "O" :> 79 @@ "P" :> 80 @@ "Q" :> 81 @@ "R" :> 82 @@
  "S" :> 83 @@ "T" :> 84 @@ "U" :> 85 @@ "V" :> 86 @@ "W" :> 87 @@
  "X" :> 88 @@ "Y" :> 89 @@ "Z" :> 90 @@ "a" :> 97 @@ "b" :> 98 @@
  "c" :> 99 @@ "d" :> 100 @@ "e" :> 101 @@ "f" :> 102 @@ "g" :> 103 @@
  "h" :> 104 @@ "i" :> 105 @@ "j" :> 106 @@ "k" :> 107 @@ "l" :> 108 @@
  "m" :> 109 @@ "n" :> 110 @@ "o" :> 111 @@ "p" :> 112 @@ "q" :> 113 @@
  "r" :> 114 @@ "s" :> 115 @@ "t" :> 116 @@ "u" :> 117 @@ "v" :> 118 @@
  "w" :> 119 @@ "x" :> 120 @@ "y" :> 121 @@ "z" :> 122 @@ "\n" :> 10 @@
  "\t" :> 9 @@ "\r" :> 13 @@ "U+0E01" :> 3585 @@ "U+0E32" :> 3634 @@
  "U+0E40" :> 3648 @@ "U+0E21" :> 3617 @@ "U+0E19" :> 3609 @@
  "U+0E39" :> 3641 @@ "U+0E27" :> 3623 @@ "U+0E25" :> 3621 @@
  "U+0E1B" :> 3611 @@ "U+0E34" :> 3636 @@ "U+0E14" :> 3604 @@
  "U+0E59" :> 3673 @@ "U+00F1" :> 241 @@ "U+00E1" :> 225 @@
  "U+00E9" :> 233 @@ "U+00ED" :> 237 @@ "U+00F3" :> 243 @@
  "U+00FA" :> 250 @@ "U+00FC" :> 252 @@ "U+00BF" :> 191 @@
  "U+00A1" :> 161 @@ "U+00D1" :> 209 @@ "U+00C1" :> 193 @@
  "U+00C9" :> 201 @@ "U+00CD" :> 205 @@ "U+00D3" :> 211 @@
  "U+00DA" :> 218 @@ "U+00DC" :> 220 @@ "U+00E0" :> 224 @@
  "U+00E8" :> 232 @@ "U+00EC" :> 236 @@ "U+00F2" :> 242 @@
  "U+00F9" :> 249 @@ "U+00C0" :> 192 @@ "U+00C8" :> 200 @@
  "U+00CC" :> 204 @@ "U+00D2" :> 210 @@ "U+00D9" :> 217 @@
  "U+3042" :> 12354 @@ "U+4E2D" :> 20013 @@ "U+AC00" :> 44032 @@
  "U+0E35" :> 3637 @@ "U+0E48" :> 3656 @@ "U+0E42" :> 3650 @@
  "U+0E07" :> 3591 @@ "U+0E17" :> 3607 @@ "U+0E33" :> 3635 @@
  "U+0E23" :> 3619 @@ "U+0E04" :> 3588 @@ "U+0E1A" :> 3610 @@
  "U+0E44" :> 3652 @@ "U+0E2B" :> 3627 @@ "U+0E0A" :> 3594 @@
  "U+0E31" :> 3633 @@ "U+0E2A" :> 3626 @@ "U+0E08" :> 3592 @@
  "U+0E2D" :> 3629 @@ "U+0E22" :> 3618 @@ "U+0E41" :> 3649 @@
  "U+0E1C" :> 3612 @@ "U+0E02" :> 3586 @@ "U+0E15" :> 3605 @@
  "U+0E4C" :> 3660 @@
  "U+2026" :> 8230 @@ "U+0E37" :> 3639 @@ "U+0E49" :> 3657 @@ "U+FF1A" :> 65306

\* String.prototype.toLowerCase, character by character
LowerTable ==
  "A" :> "a" @@ "B" :> "b" @@ "C" :> "c" @@ "D" :> "d" @@ "E" :> "e" @@
  "F" :> "f" @@ "G" :> "g" @@ "H" :> "h" @@ "I" :> "i" @@ "J" :> "j" @@
  "K" :> "k" @@ "L" :> "l" @@ "M" :> "m" @@ "N" :> "n" @@ "O" :> "o" @@
  "P" :> "p" @@ "Q" :> "q" @@ "R" :> "r" @@ "S" :> "s" @@ "T" :> "t" @@
  "U" :> "u" @@ "V" :> "v" @@ "W" :> "w" @@ "X" :> "x" @@ "Y" :> "y" @@
  "Z" :> "z" @@ "U+00D1" :> "U+00F1" @@ "U+00C1" :> "U+00E1" @@
  "U+00C9" :> "U+00E9" @@ "U+00CD" :> "U+00ED" @@ "U+00D3" :> "U+00F3" @@
  "U+00DA" :> "U+00FA" @@ "U+00DC" :> "U+00FC" @@ "U+00C0" :> "U+00E0" @@
  "U+00C8" :> "U+00E8" @@ "U+00CC" :> "U+00EC" @@ "U+00D2" :> "U+00F2" @@
  "U+00D9" :> "U+00F9"

LowerChar(c) == Lookup(LowerTable, c, c)
Lower(s) == [i \in 1..Len(s) |-> LowerChar(s[i])]

\* the code point of a character, -1 for a character that is in no class
CodeOf(c) == Lookup(Code, c, -1)

Between(n, lo, hi) == n >= lo /\ n <= hi

InRange(c, lo, hi) == Between(CodeOf(c), lo, hi)

\* the character classes of the regular expressions
IsThaiChar(c) == InRange(c, 3585, 3673)
IsKanaChar(c) == InRange(c, 12352, 12543)
IsHanChar(c) == InRange(c, 19968, 40959)
IsHangulChar(c) == InRange(c, 44032, 55203)
IsAsciiLetter(c) == InRange(c, 65, 90) \/ InRange(c, 97, 122)
\* \w by code point
IsWordCode(n) ==
  Between(n, 65, 90) \/ Between(n, 97, 122) \/ Between(n, 48, 57)
IsWordChar(c) == IsWordCode(CodeOf(c)) \/ c = "_"

MatchAt(s, i, pat) ==
  /\ i >= 1
  /\ i + Len(pat) - 1 <= Len(s)
  /\ \A k \in 1..Len(pat) : s[i + k - 1] = pat[k]

Contains(s, pat) == \E i \in 1..(Len(s) + 1) : MatchAt(s, i, pat)

\* \b between s[i-1] and s[i]
BoundaryAt(s, i) ==
  LET before == i > 1 /\ IsWordChar(s[i - 1])
      after == i <= Len(s) /\ IsWordChar(s[i])
  IN  before # after

\* /\b(w)\b/
HasWord(s, w) ==
  \E i \in 1..Len(s) :
    MatchAt(s, i, w) /\ BoundaryAt(s, i) /\ BoundaryAt(s, i + Len(w))

\* /\b(w1\s+w2)\b/
HasPhrase(s, w1, w2) ==
  \E i \in 1..Len(s) : \E j \in (i + Len(w1) + 1)..Len(s) :
    /\ MatchAt(s, i, w1)
    /\ BoundaryAt(s, i)
    /\ \A k \in (i + Len(w1))..(j - 1) : IsWS(s[k])
    /\ MatchAt(s, j, w2)
    /\ BoundaryAt(s, j + Len(w2))

(***************************************************************************)
(* Topics that force strict mode (both lexical variants).                  *)
(***************************************************************************)
\* each pattern as the set of substrings it accepts, matched ignoring case
KB_TOPICS ==
  <<
  { << "U+0E40", "U+0E27", "U+0E25", "U+0E32" >>,
    << "U+0E40", "U+0E1B", "U+0E34", "U+0E14" >>,
    << "U+0E1B", "U+0E34", "U+0E14" >>, << "h", "o", "u", "r" >>,
    << "t", "i", "m", "e" >>, << "o", "p", "e", "n", "i", "n", "g" >>,
    << "c", "l", "o", "s", "i", "n", "g" >>,
    << "U+0E01", "U+0E35", "U+0E48", "U+0E42", "U+0E21", "U+0E07" >>,
    << "U+0E40", "U+0E27", "U+0E25", "U+0E32", "U+0E17", "U+0E33", "U+0E01", "U+0E32", "U+0E23" >> },
  { << "U+0E40", "U+0E21", "U+0E19", "U+0E39" >>, << "m", "e", "n", "u" >>,
    << "m", "e", "n", "U+00FA" >>, << "m", "e", "n", "U+00F9" >> },
  { << "U+0E23", "U+0E32", "U+0E04", "U+0E32" >>,
    << "U+0E1A", "U+0E32", "U+0E17" >>, << "p", "r", "i", "c", "e" >>,
    << "U+0E40", "U+0E17", "U+0E48", "U+0E32", "U+0E44", "U+0E2B", "U+0E23", "U+0E48" >>,
    << "U+0E40", "U+0E17", "U+0E48", "U+0E32", "U+0E44", "U+0E23" >>,
    << "c", "o", "s", "t" >>, << "h", "o", "w", " ", "m", "u", "c", "h" >> },
  { << "U+0E42", "U+0E1B", "U+0E23", "U+0E42", "U+0E21", "U+0E0A", "U+0E31", "U+0E19" >>,
    << "U+0E42", "U+0E1B", "U+0E23" >>,
    << "p", "r", "o", "m", "o", "t", "i", "o", "n" >>,
    << "d", "i", "s", "c", "o", "u", "n", "t" >>,
    << "U+0E2A", "U+0E48", "U+0E27", "U+0E19", "U+0E25", "U+0E14" >> },
  { << "U+0E08", "U+0E2D", "U+0E07" >>,
    << "r", "e", "s", "e", "r", "v", "a", "t", "i", "o", "n" >>,
    << "b", "o", "o", "k", "i", "n", "g" >>,
    << "w", "a", "l", "k", "i", "n" >>,
    << "w", "a", "l", "k", "-", "i", "n" >>,
    << "w", "a", "l", "k", " ", "i", "n" >>,
    << "U+0E04", "U+0E34", "U+0E27" >> },
  { << "U+0E17", "U+0E35", "U+0E48", "U+0E2D", "U+0E22", "U+0E39", "U+0E48" >>,
    << "a", "d", "d", "r", "e", "s", "s" >>,
    << "l", "o", "c", "a", "t", "i", "o", "n" >>,
    << "U+0E41", "U+0E1C", "U+0E19", "U+0E17", "U+0E35", "U+0E48" >>,
    << "m", "a", "p" >>, << "U+0E2A", "U+0E32", "U+0E02", "U+0E32" >>,
    << "b", "r", "a", "n", "c", "h" >> },
  { << "U+0E15", "U+0E34", "U+0E14", "U+0E15", "U+0E48", "U+0E2D" >>,
    << "c", "o", "n", "t", "a", "c", "t" >>,
    << "U+0E42", "U+0E17", "U+0E23" >>,
    << "U+0E40", "U+0E1A", "U+0E2D", "U+0E23", "U+0E4C" >>,
    << "p", "h", "o", "n", "e" >>, << "l", "i", "n", "e" >>,
    << "f", "a", "c", "e", "b", "o", "o", "k" >>, << "i", "g" >>,
    << "i", "n", "s", "t", "a", "g", "r", "a", "m" >> }
  >>

\* the opening-hours pattern alone
isKBQuestionHoursOnly(q) == \E pat \in KB_TOPICS[1] : Contains(Lower(q), pat)

isKBQuestion(q) ==
  \E i \in 1..Len(KB_TOPICS) : \E pat \in KB_TOPICS[i] : Contains(Lower(q), pat)

\* /(menu)/i of the heading shortcut and of the image attachment
MenuPattern == KB_TOPICS[2]
MatchesMenu(q) == \E pat \in MenuPattern : Contains(Lower(q), pat)

(***************************************************************************)
(* Keyword retrieval of the lexical variants.                              *)
(***************************************************************************)
\* String.prototype.split(/\r?\n/)
RECURSIVE SplitLinesFrom(_, _, _)
SplitLinesFrom(s, i, cur) ==
  IF i > Len(s) THEN << cur >>
  ELSE IF s[i] = "\n" THEN << cur >> \o SplitLinesFrom(s, i + 1, << >>)
  ELSE IF s[i] = "\r" /\ i < Len(s) /\ s[i + 1] = "\n"
  THEN << cur >> \o SplitLinesFrom(s, i + 2, << >>)
  ELSE SplitLinesFrom(s, i + 1, Append(cur, s[i]))

SplitLines(s) == SplitLinesFrom(s, 1, << >>)

\* Array.prototype.join
RECURSIVE Join(_, _)
Join(parts, sep) ==
  IF parts = << >> THEN << >>
  ELSE IF Len(parts) = 1 THEN parts[1]
  ELSE parts[1] \o sep \o Join(Tail(parts), sep)

\* "\n..." appended to a text that was cut (the last character is U+2026)
Ellipsis == << "\n", "U+2026" >>

\* .replace(/\s+\S*$/, ""): the text loses its last run of white space and
\* what follows it; a text without white space is left as it is
CutLastWord(s) ==
  LET ws == { i \in 1..Len(s) : IsWS(s[i]) }
  IN  IF ws = {} THEN s
      ELSE LET last == CHOOSE i \in ws : \A j \in ws : j <= i
               start == CHOOSE i \in 1..last :
                          /\ \A k \in i..last : IsWS(s[k])
                          /\ i = 1 \/ ~IsWS(s[i - 1])
           IN  SubSeq(s, 1, start - 1)

\* s.slice(0, maxChars).replace(/\s+\S*$/, "") + "\n..."
CutTo(s, maxChars) == CutLastWord(SubSeq(s, 1, maxChars)) \o Ellipsis

\* s.length > maxChars ? (the cut text) : s
Truncated(s, maxChars) == IF Len(s) > maxChars THEN CutTo(s, maxChars) ELSE s

\* takeContextLimit(s, maxChars)
takeContextLimit(s, maxChars) ==
  IF s = << >> THEN << >>
  ELSE IF Len(s) <= maxChars THEN s
  ELSE CutTo(s, maxChars)

\* \p{L} and \p{N} of WORD_SPLIT
IsTokenCode(n) ==
  \/ IsWordCode(n)
  \/ Between(n, 192, 214) \/ Between(n, 216, 246) \/ Between(n, 248, 255)
  \/ Between(n, 3585, 3632) \/ Between(n, 3634, 3635)
  \/ Between(n, 3648, 3654) \/ Between(n, 3664, 3673)
  \/ Between(n, 12353, 12438) \/ Between(n, 12449, 12538)
  \/ Between(n, 19968, 40959) \/ Between(n, 44032, 55203)
IsTokenChar(c) == IsTokenCode(CodeOf(c))

\* .split(WORD_SPLIT).filter(Boolean): the runs of letters and digits
RECURSIVE TokensFrom(_, _, _)
TokensFrom(s, i, cur) ==
  LET done == IF cur = << >> THEN << >> ELSE << cur >>
  IN  IF i > Len(s) THEN done
      ELSE IF IsTokenChar(s[i]) THEN TokensFrom(s, i + 1, Append(cur, s[i]))
      ELSE done \o TokensFrom(s, i + 1, << >>)

CANON ==
  << "l", "i", "n", "e" >> :> << "l", "i", "n", "e" >> @@
  << "t", "e", "l" >> :> << "U+0E42", "U+0E17", "U+0E23" >> @@
  << "p", "h", "o", "n", "e" >> :> << "U+0E42", "U+0E17", "U+0E23" >> @@
  << "c", "o", "n", "t", "a", "c", "t" >> :> << "U+0E15", "U+0E34", "U+0E14", "U+0E15", "U+0E48", "U+0E2D" >> @@
  << "f", "a", "c", "e", "b", "o", "o", "k" >> :> << "f", "a", "c", "e", "b", "o", "o", "k" >> @@
  << "i", "n", "s", "t", "a", "g", "r", "a", "m" >> :> << "i", "g" >> @@
  << "i", "g" >> :> << "i", "g" >> @@
  << "o", "p", "e", "n", "i", "n", "g" >> :> << "U+0E40", "U+0E1B", "U+0E34", "U+0E14" >> @@
  << "o", "p", "e", "n" >> :> << "U+0E40", "U+0E1B", "U+0E34", "U+0E14" >> @@
  << "c", "l", "o", "s", "e" >> :> << "U+0E1B", "U+0E34", "U+0E14" >> @@
  << "c", "l", "o", "s", "i", "n", "g" >> :> << "U+0E1B", "U+0E34", "U+0E14" >> @@
  << "h", "o", "u", "r", "s" >> :> << "U+0E40", "U+0E27", "U+0E25", "U+0E32" >> @@
  << "h", "o", "u", "r" >> :> << "U+0E40", "U+0E27", "U+0E25", "U+0E32" >> @@
  << "t", "i", "m", "e" >> :> << "U+0E40", "U+0E27", "U+0E25", "U+0E32" >> @@
  << "t", "i", "m", "e", "s" >> :> << "U+0E40", "U+0E27", "U+0E25", "U+0E32" >> @@
  << "m", "e", "n", "u" >> :> << "U+0E40", "U+0E21", "U+0E19", "U+0E39" >> @@
  << "m", "e", "n", "U+00FA" >> :> << "U+0E40", "U+0E21", "U+0E19", "U+0E39" >> @@
  << "m", "e", "n", "U+00F9" >> :> << "U+0E40", "U+0E21", "U+0E19", "U+0E39" >> @@
  << "p", "r", "i", "c", "e" >> :> << "U+0E23", "U+0E32", "U+0E04", "U+0E32" >> @@
  << "c", "o", "s", "t" >> :> << "U+0E23", "U+0E32", "U+0E04", "U+0E32" >> @@
  << "p", "r", "o", "m", "o", "t", "i", "o", "n" >> :> << "U+0E42", "U+0E1B", "U+0E23", "U+0E42", "U+0E21", "U+0E0A", "U+0E31", "U+0E19" >> @@
  << "d", "i", "s", "c", "o", "u", "n", "t" >> :> << "U+0E42", "U+0E1B", "U+0E23", "U+0E42", "U+0E21", "U+0E0A", "U+0E31", "U+0E19" >> @@
  << "r", "e", "s", "e", "r", "v", "a", "t", "i", "o", "n" >> :> << "U+0E08", "U+0E2D", "U+0E07" >> @@
  << "b", "o", "o", "k", "i", "n", "g" >> :> << "U+0E08", "U+0E2D", "U+0E07" >> @@
  << "w", "a", "l", "k", "i", "n" >> :> << "U+0E04", "U+0E34", "U+0E27" >> @@
  << "w", "a", "l", "k" >> :> << "U+0E04", "U+0E34", "U+0E27" >> @@
  << "a", "d", "d", "r", "e", "s", "s" >> :> << "U+0E17", "U+0E35", "U+0E48", "U+0E2D", "U+0E22", "U+0E39", "U+0E48" >> @@
  << "l", "o", "c", "a", "t", "i", "o", "n" >> :> << "U+0E17", "U+0E35", "U+0E48", "U+0E2D", "U+0E22", "U+0E39", "U+0E48" >> @@
  << "m", "a", "p" >> :> << "U+0E41", "U+0E1C", "U+0E19", "U+0E17", "U+0E35", "U+0E48" >> @@
  << "b", "r", "a", "n", "c", "h" >> :> << "U+0E2A", "U+0E32", "U+0E02", "U+0E32" >>

CanonOf(t) == Lookup(CANON, t, t)

\* tokenize(text). The word segmenter puts a space at each word boundary: in
\* a run of Latin letters and digits there is none, and a run of Thai letters
\* is taken as one word (the texts drawn here hold no longer Thai run than
\* the one word of the menu pattern)
Canonical(toks) == [k \in 1..Len(toks) |-> CanonOf(toks[k])]

tokenize(text) == Canonical(TokensFrom(Lower(text), 1, << >>))

\* /^\s*#{1,6}\s*/
IsHeaderLine(line) ==
  LET t == TrimStart(line) IN t # << >> /\ t[1] = "#"

\* pattern.test(line), the pattern given as the substrings it accepts
TestPattern(pattern, line) == \E pat \in pattern : Contains(Lower(line), pat)

\* the first index from i on whose line satisfies the test, 0 when none
RECURSIVE FirstLine(_, _, _)
FirstLine(lines, i, pattern) ==
  IF i > Len(lines) THEN 0
  ELSE IF IsHeaderLine(lines[i]) /\ (pattern = {} \/ TestPattern(pattern, lines[i]))
  THEN i
  ELSE FirstLine(lines, i + 1, pattern)

\* lines.slice(start, end).join("\n") for the heading found at start and the
\* next heading found at next (0: none found)
SectionLines(lines, start, next) ==
  IF start = 0 THEN << >>
  ELSE Join(SubSeq(lines, start, IF next = 0 THEN Len(lines) ELSE next - 1),
            << "\n" >>)

\* the two loops of getSectionByHeader: the second looks for any heading
SectionOf(lines, start) ==
  SectionLines(lines, start, FirstLine(lines, start + 1, {}))

\* the same, the section running to the end of the document
SectionToEndIn(lines, pattern) ==
  SectionLines(lines, FirstLine(lines, 1, pattern), 0)
getSectionByHeaderToEnd(raw, pattern) == SectionToEndIn(SplitLines(raw), pattern)

\* getSectionByHeader(raw, pattern)
SectionIn(lines, pattern) == SectionOf(lines, FirstLine(lines, 1, pattern))
getSectionByHeader(raw, pattern) == SectionIn(SplitLines(raw), pattern)

Boosters ==
  { << "U+0E40", "U+0E27", "U+0E25", "U+0E32" >>,
    << "U+0E40", "U+0E1B", "U+0E34", "U+0E14" >>,
    << "U+0E1B", "U+0E34", "U+0E14" >>,
    << "U+0E01", "U+0E35", "U+0E48", "U+0E42", "U+0E21", "U+0E07" >>,
    << "U+0E40", "U+0E21", "U+0E19", "U+0E39" >>,
    << "U+0E23", "U+0E32", "U+0E04", "U+0E32" >>,
    << "U+0E42", "U+0E1B", "U+0E23", "U+0E42", "U+0E21", "U+0E0A", "U+0E31", "U+0E19" >>,
    << "U+0E08", "U+0E2D", "U+0E07" >>,
    << "U+0E17", "U+0E35", "U+0E48", "U+0E2D", "U+0E22", "U+0E39", "U+0E48" >>,
    << "U+0E15", "U+0E34", "U+0E14", "U+0E15", "U+0E48", "U+0E2D" >>,
    << "l", "i", "n", "e" >>,
    << "f", "a", "c", "e", "b", "o", "o", "k" >>,
    << "i", "g" >> }

\* /[::]\s*\S/ (the ASCII and the full-width colon)
FactLike(line) ==
  \E i \in 1..Len(line) : \E j \in (i + 1)..Len(line) :
    /\ line[i] \in { ":", "U+FF1A" }
    /\ ~IsWS(line[j])
    /\ \A k \in (i + 1)..(j - 1) : IsWS(line[k])

\* /a\s*b/
GapMatch(s, a, b) ==
  \E i \in 1..Len(s) : \E j \in (i + Len(a))..Len(s) :
    /\ MatchAt(s, i, a)
    /\ \A k \in (i + Len(a))..(j - 1) : IsWS(s[k])
    /\ MatchAt(s, j, b)

\* the opening-hours pattern of the line score
HoursLine(line) ==
  LET low == Lower(line)
  IN  \/ GapMatch(low, << "U+0E40", "U+0E27", "U+0E25", "U+0E32" >>, << "U+0E40", "U+0E1B", "U+0E34", "U+0E14" >>)
      \/ GapMatch(low, << "U+0E40", "U+0E27", "U+0E25", "U+0E32" >>, << "U+0E1B", "U+0E34", "U+0E14" >>)
      \/ Contains(low, << "U+0E40", "U+0E27", "U+0E25", "U+0E32", "U+0E17", "U+0E33", "U+0E01", "U+0E32", "U+0E23" >>)

Range(f) == { f[i] : i \in DOMAIN f }

\* twice what the tokens a line shares with the question add to its score
MatchScore(common, askKB) ==
  2 * Cardinality(common)
  + (IF askKB THEN 2 * Cardinality(common \cap Boosters) ELSE 0)

\* twice the score of a line (the code adds 0.5 for a fact-like line)
LineScore(line, qSet, askKB) ==
  MatchScore(qSet \cap Range(tokenize(line)), askKB)
  + (IF FactLike(line) THEN 1 ELSE 0)
  + (IF askKB /\ HoursLine(line) THEN 4 ELSE 0)

\* the score of each line when a line without tokens is scored as well
ScoresOfAllLines(lines, qSet, askKB) ==
  [i \in 1..Len(lines) |-> LineScore(lines[i], qSet, askKB)]

\* the score of each line, 0 for a line without tokens, which is skipped
Scores(lines, qSet, askKB) ==
  [i \in 1..Len(lines) |->
     IF tokenize(lines[i]) = << >> THEN 0
     ELSE LineScore(lines[i], qSet, askKB)]

\* the indices pushed to scored: the lines that score above 0
ScoredLines(score) == { i \in DOMAIN score : score[i] > 0 }

\* the first of the candidates in the order of the stable sort
Best(cands, score) ==
  CHOOSE i \in cands : \A j \in cands :
    score[i] > score[j] \/ (score[i] = score[j] /\ i <= j)

\* scored.sort((a,b) => b.score - a.score).slice(0, n)
RECURSIVE Anchors(_, _, _)
Anchors(cands, n, score) ==
  IF n = 0 \/ cands = {} THEN << >>
  ELSE << Best(cands, score) >>
       \o Anchors(cands \ { Best(cands, score) }, n - 1, score)

MaxAnchors == 3
LinesBefore == 5
LinesAfter == 6

\* the window when the end of the slice is taken as its last line
WindowEndIncluded(lines, i) ==
  LET from == IF i - LinesBefore < 1 THEN 1 ELSE i - LinesBefore
      to == Min(Len(lines), i + LinesAfter)
  IN  Join(SubSeq(lines, from, to), << "\n" >>)

\* lines.slice(Math.max(0, a.i-5), Math.min(lines.length, a.i+6)).join("\n")
Window(lines, i) ==
  LET from == IF i - LinesBefore < 1 THEN 1 ELSE i - LinesBefore
      to == Min(Len(lines), i + LinesAfter - 1)
  IN  Join(SubSeq(lines, from, to), << "\n" >>)

WindowSeparator == << "\n", "-", "-", "-", "\n" >>

\* chunks.join("\n---\n"): the windows of the anchors
Windows(lines, anchors) ==
  Join([k \in 1..Len(anchors) |-> Window(lines, anchors[k])], WindowSeparator)

\* step 2 from the scores on: nothing when no line was pushed to scored
ScoredContext(lines, score, maxChars) ==
  IF ScoredLines(score) = {} THEN << >>
  ELSE Truncated(Windows(lines, Anchors(ScoredLines(score), MaxAnchors, score)),
                 maxChars)

LinesContext(lines, qSet, maxChars, askKB) ==
  ScoredContext(lines, Scores(lines, qSet, askKB), maxChars)

\* step 2 of extractRelevantContext: the windows of the best lines
TokenContext(raw, q, maxChars, askKB) ==
  LinesContext(SplitLines(raw), Range(tokenize(q)), maxChars, askKB)

\* step 1 for the section found: the section when it has text, step 2 if not
SectionOrTokens(sec, raw, q, maxChars, askKB) ==
  IF Trim(sec) # << >> THEN Truncated(sec, maxChars)
  ELSE TokenContext(raw, q, maxChars, askKB)

\* extractRelevantContext(raw, q, maxChars, askKB)
extractRelevantContext(raw, q, maxChars, askKB) ==
  IF raw = << >> THEN << >>
  ELSE IF askKB /\ MatchesMenu(q)
  THEN SectionOrTokens(getSectionByHeader(raw, MenuPattern), raw, q, maxChars, askKB)
  ELSE TokenContext(raw, q, maxChars, askKB)

(***************************************************************************)
(* Language detection and the target-language test (language guard).       *)
(***************************************************************************)
SpanishMarks == { "U+00F1", "U+00E1", "U+00E9", "U+00ED", "U+00F3", "U+00FA", "U+00FC", "U+00BF", "U+00A1" }
ItalianMarks == { "U+00E0", "U+00E8", "U+00E9", "U+00EC", "U+00F2", "U+00F9" }
IsSpanishMark(c) == LowerChar(c) \in SpanishMarks
IsItalianMark(c) == LowerChar(c) \in ItalianMarks
SpanishWords ==
  { << "n", "e", "c", "e", "s", "i", "t", "o" >>,
    << "m", "e", "n", "U+00FA" >>, << "p", "r", "e", "c", "i", "o" >>,
    << "h", "o", "l", "a" >>, << "d", "U+00F3", "n", "d", "e" >>,
    << "g", "r", "a", "c", "i", "a", "s" >> }
ItalianWords ==
  { << "c", "i", "a", "o" >>, << "g", "r", "a", "z", "i", "e" >>,
    << "b", "i", "s", "o", "g", "n", "o" >>, << "m", "e", "n", "U+00F9" >>,
    << "o", "r", "a", "r", "i" >>, << "p", "r", "e", "z", "z", "o" >>,
    << "a", "p", "e", "r", "t", "u", "r", "a" >>,
    << "c", "h", "i", "u", "s", "u", "r", "a" >>,
    << "r", "i", "s", "t", "o", "r", "a", "n", "t", "e" >>,
    << "i", "n", "d", "i", "r", "i", "z", "z", "o" >> }
SpanishStopWords ==
  { << "e", "l" >>, << "l", "a" >>, << "l", "o", "s" >>,
    << "l", "a", "s" >>, << "d", "e" >>, << "d", "e", "l" >>, << "y" >>,
    << "q", "u", "e" >> }
ItalianStopWords ==
  { << "i", "l" >>, << "l", "o" >>, << "l", "a" >>, << "g", "l", "i" >>,
    << "l", "e" >>, << "d", "e", "l" >>, << "d", "e", "l", "l", "a" >>,
    << "d", "e", "i" >>, << "d", "e", "g", "l", "i" >>, << "e" >>,
    << "c", "h", "e" >> }

IsForeignScript(c) ==
  IsThaiChar(c) \/ IsKanaChar(c) \/ IsHanChar(c) \/ IsHangulChar(c)

\* the character classes of the language tests
InClass(c, class) ==
  IF class = "thai" THEN IsThaiChar(c)
  ELSE IF class = "kana" THEN IsKanaChar(c)
  ELSE IF class = "han" THEN IsHanChar(c)
  ELSE IF class = "hangul" THEN IsHangulChar(c)
  ELSE IF class = "spanish" THEN IsSpanishMark(c)
  ELSE IF class = "italian" THEN IsItalianMark(c)
  ELSE IF class = "foreign" THEN IsForeignScript(c)
  ELSE IsAsciiLetter(c)

\* /[class]/.test(s)
HasChar(s, class) == \E i \in 1..Len(s) : InClass(s[i], class)

detectLang(text) ==
  LET low == Lower(text)
  IN  IF HasChar(text, "thai") THEN "th"
      ELSE IF HasChar(text, "kana") THEN "ja"
      ELSE IF HasChar(text, "han") THEN "zh"
      ELSE IF HasChar(text, "hangul") THEN "ko"
      ELSE IF \/ HasChar(text, "spanish")
              \/ \E w \in SpanishWords : HasWord(low, w)
              \/ HasPhrase(low, << "p", "o", "r" >>, << "f", "a", "v", "o", "r" >>)
           THEN "es"
      ELSE IF \/ \E w \in ItalianWords : HasWord(low, w)
              \/ HasPhrase(low, << "p", "e", "r" >>, << "f", "a", "v", "o", "r", "e" >>)
           THEN "it"
      ELSE "en"

isTextInLang(text, lang) ==
  IF lang = "th" THEN HasChar(text, "thai")
  ELSE IF lang = "ja" THEN HasChar(text, "kana")
  ELSE IF lang = "zh" THEN HasChar(text, "han")
  ELSE IF lang = "ko" THEN HasChar(text, "hangul")
  ELSE IF lang = "es"
       THEN \/ HasChar(text, "spanish")
            \/ \E w \in SpanishStopWords : HasWord(Lower(text), w)
  ELSE IF lang = "it"
       THEN \/ \E w \in ItalianStopWords : HasWord(Lower(text), w)
            \/ HasChar(text, "italian")
  ELSE HasChar(text, "ascii") /\ ~HasChar(text, "foreign")


(***************************************************************************)
(* Loader of the lexical variants.                                         *)
(***************************************************************************)
\* loadKBOnce(): the text RAW_TEXT holds afterwards
loadKBOnce == IF file.exists THEN FileText(file.ver) ELSE << >>

\* ensureKBLoaded(): if (!RAW_TEXT) loadKBOnce()
ensureKBLoadedLexical == IF RAW_TEXT = << >> THEN loadKBOnce ELSE RAW_TEXT

\* the fs.watch callback for an event naming the knowledge file:
\* clearTimeout(watchTimer); watchTimer = setTimeout(..., 300)
WatchCallback ==
  /\ IsLexical(variant)
  /\ fsEvent
  /\ fsEvent' = FALSE
  /\ watchTimer' = TRUE
  /\ UNCHANGED << variant, apiKey, file, KB, kbSrc, lastKBModified, RAW_TEXT, proc,
                  quiet, failed, trace, call, ret, watch >>

\* the debounce timer fires: loadKBOnce()
TimerFire ==
  /\ IsLexical(variant)
  /\ watchTimer
  /\ watchTimer' = FALSE
  /\ RAW_TEXT' = loadKBOnce
  /\ UNCHANGED << variant, apiKey, file, KB, kbSrc, lastKBModified, fsEvent, proc,
                  quiet, failed, trace, call, ret, watch >>

(***************************************************************************)
(* The directory watcher in time.  Time is counted in milliseconds; a      *)
(* timer runs at the instant it is due, ahead of the callbacks of the      *)
(* events that arrive at that instant.                                      *)
(***************************************************************************)
\* setTimeout(..., 300)
DebounceMs == 300

\* what fs.watch passes as filename: the knowledge file, another file of the
\* directory, or nothing
KbFileName == "kb"
FileNames == { KbFileName, "other", "null" }

\* path.join(path.dirname(KB_PATH), filename) === KB_PATH
NamesKB(filename) == filename # "null" /\ filename = KbFileName

\* the timers left pending when none is cleared
clearTimeoutNever(timers, handle) == timers

\* clearTimeout(watchTimer): a handle of no pending timer clears nothing
clearTimeout(timers, handle) == { t \in timers : t.id # handle }

\* setTimeout(fn, 300) called at time now: the timer that is created
setTimeout(id, now) == [id |-> id, due |-> now + DebounceMs]

TimersDue == { t \in watch.timers : t.due <= watch.now }

\* the steps by which the clock advances
ClockSteps == { 100, 200, 300 }

\* time passes, up to the next instant at which a timer is due
Elapse(d) ==
  /\ IsLexical(variant)
  /\ watch.now + d <= MaxTime
  /\ \A t \in watch.timers : t.due >= watch.now + d
  /\ watch' = [watch EXCEPT !.now = @ + d]
  /\ UNCHANGED << variant, apiKey, file, KB, kbSrc, lastKBModified, RAW_TEXT,
                  fsEvent, watchTimer, proc, quiet, failed, trace, call, ret >>

\* the fs.watch callback for an event with this filename, at the present time
WatchEvent(filename) ==
  /\ IsLexical(variant)
  /\ Len(watch.events) < MaxEvents
  /\ TimersDue = {}
  /\ IF NamesKB(filename)
     THEN /\ watch' = [watch EXCEPT
                         !.handle = Len(watch.events) + 1,
                         !.timers = clearTimeout(watch.timers, watch.handle)
                                    \cup { setTimeout(Len(watch.events) + 1, watch.now) },
                         !.events = Append(@, [at |-> watch.now, name |-> filename])]
          /\ watchTimer' = TRUE
     ELSE /\ watch' = [watch EXCEPT
                         !.events = Append(@, [at |-> watch.now, name |-> filename])]
          /\ watchTimer' = watchTimer
  /\ UNCHANGED << variant, apiKey, file, KB, kbSrc, lastKBModified, RAW_TEXT,
                  fsEvent, proc, quiet, failed, trace, call, ret >>

\* a timer that is due runs: loadKBOnce()
TimerExpire ==
  /\ IsLexical(variant)
  /\ \E t \in TimersDue :
       /\ watch' = [watch EXCEPT !.timers = @ \ {t},
                                 !.reloads = Append(@, watch.now)]
       /\ watchTimer' = (watch.timers \ {t} # {})
  /\ RAW_TEXT' = loadKBOnce
  /\ UNCHANGED << variant, apiKey, file, KB, kbSrc, lastKBModified, fsEvent, proc,
                  quiet, failed, trace, call, ret >>

(***************************************************************************)
(* The system prompt of the lexical variants.                              *)
(***************************************************************************)
\* content || fallback
OrElse(text, fallback) == IF text = << >> THEN fallback ELSE text

DefaultShopName == << "S", "U", "N", "B", "I", " ", "K", "K", "O", "M", "A", " ", "K", "I", "M", "B", "A", "P" >>

\* the text after the first "label:" (or the full-width colon) and the white
\* space that follows it; << >> when no such label has text after it
AfterLabel(raw, label, fold) ==
  LET s == IF fold THEN Lower(raw) ELSE raw
      rest(i) == TrimStart(SubSeq(raw, i + Len(label) + 1, Len(raw)))
      hits == { i \in 1..Len(raw) :
                  /\ MatchAt(s, i, label)
                  /\ i + Len(label) <= Len(raw)
                  /\ raw[i + Len(label)] \in { ":", "U+FF1A" }
                  /\ rest(i) # << >> }
  IN  IF hits = {} THEN << >>
      ELSE rest(CHOOSE i \in hits : \A j \in hits : i <= j)

\* the longest prefix of s without a character of the set
RECURSIVE UpTo(_, _)
UpTo(s, stops) ==
  IF s = << >> \/ Head(s) \in stops THEN << >>
  ELSE << Head(s) >> \o UpTo(Tail(s), stops)

\* parseShopMeta(raw): the rest of the line after the shop-name label and the
\* word after "LINE:" (<< >> for null)
parseShopMeta(raw) ==
  LET name == TrimEnd(UpTo(AfterLabel(raw, << "U+0E0A", "U+0E37", "U+0E48", "U+0E2D", "U+0E23", "U+0E49", "U+0E32", "U+0E19" >>, FALSE), { "\n", "\r" }))
  IN  [name |-> IF name = << >> THEN DefaultShopName ELSE name,
       line |-> UpTo(AfterLabel(raw, << "l", "i", "n", "e" >>, TRUE),
                     { " ", "\n", "\t", "\r" })]

NoFactsPlaceholder == << "(", "n", "o", " ", "r", "e", "l", "e", "v", "a", "n", "t", " ", "f", "a", "c", "t", "s", ")" >>

DefaultMaxChars == 2000
GeneralMaxChars == 20000

\* the completion request composed for message over the document raw: the
\* mode of the system prompt, the temperature in tenths, the text after the
\* context label, and the shop name and LINE id put in the profile
ComposedPrompt(message, raw) ==
  LET askKB == isKBQuestion(message)
      kbContext == IF askKB
                   THEN extractRelevantContext(raw, message, DefaultMaxChars, TRUE)
                   ELSE << >>
      meta == parseShopMeta(raw)
  IN  [mode |-> IF askKB THEN "strict" ELSE "general",
       temperature |-> IF askKB THEN 0 ELSE 7,
       context |-> IF askKB THEN OrElse(kbContext, NoFactsPlaceholder)
                   ELSE takeContextLimit(raw, GeneralMaxChars),
       shopName |-> meta.name,
       lineId |-> IF askKB THEN meta.line ELSE << >>]

(***************************************************************************)
(* POST /chat: from the arrival of request r to its first upstream call.   *)
(***************************************************************************)
\* the body of the try block for a valid request
ArriveValid(r, p) ==
  IF variant = "P"
  THEN /\ proc' = [proc EXCEPT ![r] = [p EXCEPT !.pc = "completion", !.nChat = @ + 1]]
       /\ UNCHANGED << KB, kbSrc, lastKBModified, RAW_TEXT, quiet >>
  ELSE IF IsLexical(variant)
  THEN /\ RAW_TEXT' = ensureKBLoadedLexical
       /\ proc' = [proc EXCEPT ![r] =
                     [p EXCEPT !.pc = "completion", !.nChat = @ + 1,
                               !.obs = IF file.exists THEN -1 ELSE 0,
                               !.askKB = isKBQuestion(p.msg),
                               !.lang = IF variant = "G" THEN detectLang(p.msg)
                                        ELSE "none",
                               !.prompt = ComposedPrompt(p.msg, ensureKBLoadedLexical)]]
       /\ UNCHANGED << KB, kbSrc, lastKBModified, quiet >>
  ELSE /\ RAW_TEXT' = RAW_TEXT
       /\ IF EnsureDecision = "absent"
          THEN /\ KB' = << >>
               /\ kbSrc' = 0
               /\ lastKBModified' = lastKBModified
               /\ quiet' = TRUE
               /\ proc' = [proc EXCEPT ![r] = AfterKB([p EXCEPT !.obs = 0], << >>)]
          ELSE IF EnsureDecision = "reload"
          THEN /\ lastKBModified' = file.mtime
               /\ UNCHANGED << KB, kbSrc, quiet >>
               /\ proc' = [proc EXCEPT ![r] =
                             [p EXCEPT !.pc = "kbEmbed", !.nKb = @ + 1,
                                       !.obs = file.mtime, !.rmt = file.mtime,
                                       !.chunks = SplitOf(variant, FileText(file.ver))]]
          ELSE /\ UNCHANGED << KB, kbSrc, lastKBModified >>
               /\ quiet' = TRUE
               /\ proc' = [proc EXCEPT ![r] = AfterKB([p EXCEPT !.obs = file.mtime], KB)]

\* the checks in the other order: the message first
RejectionMessageFirst(message) ==
  IF message = << >> THEN 400
  ELSE IF ~apiKey THEN 500
  ELSE 0

\* the two checks ahead of the try block: the status of the rejection, 0 for
\* a request that passes both
Rejection(message) ==
  IF ~apiKey THEN 500
  ELSE IF message = << >> THEN 400
  ELSE 0

Arrive(r) ==
  /\ proc[r].pc = "idle"
  /\ r = 1 \/ proc[r - 1].pc # "idle"
  /\ \E raw \in RawMessages(variant) :
       LET message == Trim(raw)
           p == [proc[r] EXCEPT !.msg = message]
       IN  IF Rejection(message) = 500
           THEN /\ proc' = [proc EXCEPT ![r] = Respond(p, 500, NoReply, "missing-key")]
                /\ UNCHANGED << KB, kbSrc, lastKBModified, RAW_TEXT, quiet >>
           ELSE IF Rejection(message) = 400
           THEN /\ proc' = [proc EXCEPT ![r] = Respond(p, 400, NoReply, "message-required")]
                /\ UNCHANGED << KB, kbSrc, lastKBModified, RAW_TEXT, quiet >>
           ELSE ArriveValid(r, p)
  /\ UNCHANGED << variant, apiKey, file, fsEvent, watchTimer, failed, trace, call, ret, watch >>

(***************************************************************************)
(* The chunk-embedding call of a reload returns.                           *)
(***************************************************************************)
EmbedKBReturn(p) ==
  /\ proc[p].pc = "kbEmbed"
  /\ \E o \in ChunkEmbedOutcomes(proc[p].chunks) :
       /\ failed' = (failed \/ (~o.ok /\ proc[p].obs = CurrentObs))
       /\ IF ~o.ok /\ variant # "J"
          THEN \* embed() throws: the startup load empties the cache in its catch,
               \* a request answers 500 from the handler's catch
               IF p = Boot
               THEN /\ KB' = << >>
                    /\ kbSrc' = 0
                    /\ quiet' = quiet
                    /\ proc' = [proc EXCEPT ![p] = [@ EXCEPT !.pc = "done", !.chunks = << >>,
                                                             !.rmt = 0]]
               ELSE /\ UNCHANGED << KB, kbSrc, quiet >>
                    /\ proc' = [proc EXCEPT ![p] = Respond(@, 500, NoReply, "embed-error")]
          ELSE LET kb == BuiltKB(variant, proc[p].chunks, o)
               IN  /\ KB' = kb
                   /\ kbSrc' = proc[p].rmt
                   /\ quiet' = (quiet \/ proc[p].obs = CurrentObs)
                   /\ proc' = [proc EXCEPT ![p] =
                                 IF p = Boot
                                 THEN [@ EXCEPT !.pc = "done", !.chunks = << >>, !.rmt = 0]
                                 ELSE AfterKB(@, kb)]
  /\ UNCHANGED << variant, apiKey, file, lastKBModified, RAW_TEXT, fsEvent, watchTimer,
                  trace, call, ret, watch >>

(***************************************************************************)
(* The query-embedding call returns: scoring and context.                  *)
(***************************************************************************)
\* const [qEmb] = await embed([message])
QueryEmbedding(o) ==
  IF o.ok /\ Len(o.embs) >= 1 THEN Arr(o.embs[1])
  ELSE IF variant = "J" THEN Null ELSE Undefined

\* the context the handler builds from the cache and the query embedding
RetrievedContext(kb, qEmb) ==
  IF variant = "J" /\ qEmb.kind # "array" THEN << >>
  ELSE ContextOf(TopChunks(kb, qEmb, variant))

\* history: the cache a request scores against, relative to the file version
\* the request observed in its own ensureKBLoaded check
Staleness(src, obs) ==
  IF src = obs THEN "observed" ELSE IF src < obs THEN "older" ELSE "newer"

\* history: no chunk of the cache scores above the variant's cut-off
\* (0.75 = 3/4, 0.9 = 9/10), every score being defined
BestAtMostCutoff(kb, qEmb) ==
  \A i \in 1..Len(kb) :
    LET sc == cosine(qEmb, kb[i].embedding)
    IN  /\ ~sc.err
        /\ ~(/\ sc.sgn = 1
             /\ IF variant = "E75" THEN 16 * sc.sq > 9 * sc.den
                ELSE 100 * sc.sq > 81 * sc.den)

QEmbedReturn(r) ==
  /\ proc[r].pc = "qEmbed"
  /\ \E o \in QueryEmbedOutcomes :
       LET qEmb == QueryEmbedding(o)
           p == [proc[r] EXCEPT !.scored = Staleness(kbSrc, proc[r].obs), !.obs = -1,
                                !.low = IsThresholded(variant) /\ BestAtMostCutoff(KB, qEmb)]
       IN  IF variant = "J"
           THEN proc' = [proc EXCEPT ![r] =
                           [(IF qEmb.kind = "array" THEN p ELSE proc[r])
                              EXCEPT !.pc = "completion", !.nChat = @ + 1,
                                     !.ctx = RetrievedContext(KB, qEmb)]]
           ELSE IF ~o.ok
           THEN proc' = [proc EXCEPT ![r] = Respond(proc[r], 500, NoReply, "embed-error")]
           ELSE IF ScoringThrows(KB, qEmb, variant)
           THEN proc' = [proc EXCEPT ![r] =
                           Respond([proc[r] EXCEPT !.obs = -1], 500, NoReply, "type-error")]
           ELSE LET ctx == RetrievedContext(KB, qEmb)
                IN  IF ctx = << >>
                    THEN proc' = [proc EXCEPT ![r] =
                                    [Respond(p, 200, NoInfoReply, "none")
                                       EXCEPT !.ctx = ctx]]
                    ELSE proc' = [proc EXCEPT ![r] =
                                    [p EXCEPT !.pc = "completion", !.nChat = @ + 1,
                                              !.ctx = ctx]]
  /\ UNCHANGED << variant, apiKey, file, KB, kbSrc, lastKBModified, RAW_TEXT,
                  fsEvent, watchTimer, quiet, failed, trace, call, ret, watch >>

(***************************************************************************)
(* The completion call returns.                                            *)
(***************************************************************************)
\* axios with its default validateStatus in every variant
ChatThrowsByDefault(o) == o.status # "2xx"

\* axios throws on this answer: any non-2xx status under the default
\* validateStatus, only 5xx under the lexical variants' s>=200 && s<500
ChatThrows(o) ==
  IF IsLexical(variant) THEN o.status \in {"5xx", "timeout"}
  ELSE o.status # "2xx"

\* the request forceTranslateTo posts: temperature 0, the text to translate
TranslationRequest(text) ==
  [mode |-> "translate", temperature |-> 0, context |-> text,
   shopName |-> << >>, lineId |-> << >>]

\* the handler from the completion call's answer o to its response or to the
\* translation call
AfterChat(p, o) ==
  IF ChatThrows(o) THEN Finish(p, 500, NoReply, CaughtDetail(o))
  ELSE IF o.status = "4xx"
  THEN \* result.status >= 400: 502 with detail: result.data || {}
       Finish(p, 502, NoReply, IF o.body THEN "upstream-body" ELSE "empty-object")
  ELSE IF variant = "J" THEN Finish(p, 200, GuardedReply(o.out), "none")
  ELSE IF variant = "L"
  THEN Finish(p, 200, OrElse(Trim(ContentOf(o)), SorryReplyL), "none")
  ELSE IF variant = "G"
  THEN LET reply == Trim(ContentOf(o))
       IN  IF reply # << >> /\ ~isTextInLang(reply, p.lang)
           THEN [p EXCEPT !.pc = "translate", !.nTr = @ + 1, !.reply = reply,
                          !.prompt = TranslationRequest(reply)]
           ELSE Finish(p, 200, OrElse(reply, SorryReplyG), "none")
  ELSE Finish(p, 200, OrElse(ContentOf(o), NoReplyText), "none")

ChatReturn(r) ==
  /\ proc[r].pc = "completion"
  /\ \E o \in ChatOutcomes(variant) : proc' = [proc EXCEPT ![r] = AfterChat(@, o)]
  /\ UNCHANGED << variant, apiKey, file, KB, kbSrc, lastKBModified, RAW_TEXT,
                  fsEvent, watchTimer, quiet, failed, trace, call, ret, watch >>

\* the same step, the answer recorded
ChatReturnTraced(r) ==
  /\ proc[r].pc = "completion"
  /\ \E o \in TracedOutcomes(variant) :
       /\ proc' = [proc EXCEPT ![r] = AfterChat(@, o)]
       /\ trace' = o
  /\ UNCHANGED << variant, apiKey, file, KB, kbSrc, lastKBModified, RAW_TEXT,
                  fsEvent, watchTimer, quiet, failed, call, ret, watch >>

(***************************************************************************)
(* The translation call of the language guard returns.                     *)
(***************************************************************************)
\* the same without the fall-back to the text
forceTranslateToNoFallback(text, o) ==
  IF o.status = "2xx" THEN Trim(ContentOf(o)) ELSE text

\* forceTranslateTo: r.data?.choices?.[0]?.message?.content?.trim() || text;
\* a 4xx passes validateStatus and carries no choices
forceTranslateTo(text, o) ==
  IF o.status = "2xx" THEN OrElse(Trim(ContentOf(o)), text) ELSE text

\* the same, a failed translation call made again
AfterTranslateRetrying(p, o) ==
  IF o.status \in {"5xx", "timeout"}
  THEN (IF p.nTr < 2 THEN [p EXCEPT !.nTr = @ + 1]
        ELSE Finish(p, 500, NoReply, CaughtDetail(o)))
  ELSE Finish(p, 200, OrElse(forceTranslateTo(p.reply, o), SorryReplyG), "none")

\* the handler from the translation call's answer o to its response
AfterTranslate(p, o) ==
  IF o.status \in {"5xx", "timeout"} THEN Finish(p, 500, NoReply, CaughtDetail(o))
  ELSE Finish(p, 200, OrElse(forceTranslateTo(p.reply, o), SorryReplyG), "none")

TranslateReturn(r) ==
  /\ proc[r].pc = "translate"
  /\ \E o \in ChatOutcomes(variant) : proc' = [proc EXCEPT ![r] = AfterTranslate(@, o)]
  /\ UNCHANGED << variant, apiKey, file, KB, kbSrc, lastKBModified, RAW_TEXT,
                  fsEvent, watchTimer, quiet, failed, trace, call, ret, watch >>

(***************************************************************************)
(* Specification.                                                          *)
(***************************************************************************)
\* the state once the module has loaded and app.listen has called back: the
\* thresholded variants have started their startup load (it awaits its
\* embedding call), the lexical variants have read the file
ServiceInit ==
  /\ variant \in Variants
  /\ apiKey \in BOOLEAN
  /\ file \in { [exists |-> e, mtime |-> 1, ver |-> 1] : e \in BOOLEAN }
  /\ KB = << >>
  /\ kbSrc = 0
  /\ lastKBModified = (IF IsThresholded(variant) /\ file.exists THEN file.mtime ELSE 0)
  /\ RAW_TEXT = (IF IsLexical(variant) /\ file.exists THEN FileText(file.ver) ELSE << >>)
  /\ fsEvent = FALSE
  /\ watchTimer = FALSE
  /\ watch = NoWatch
  /\ quiet = (IsThresholded(variant) /\ ~file.exists)
  /\ failed = FALSE
  /\ trace = NoTrace
  /\ proc = [p \in Procs |->
               IF p = Boot
               THEN IF IsThresholded(variant) /\ file.exists
                    THEN [IdleProc EXCEPT !.pc = "kbEmbed", !.nKb = 1,
                                          !.obs = file.mtime, !.rmt = file.mtime,
                                          !.chunks = SplitOf(variant, FileText(file.ver))]
                    ELSE [IdleProc EXCEPT !.pc = "done"]
               ELSE IdleProc]

Init == ServiceInit /\ call = NoCall /\ ret = NotReturned

Next ==
  \/ FileWrite
  \/ FileDelete
  \/ WatchCallback
  \/ TimerFire
  \/ \E r \in Requests : Arrive(r)
  \/ \E p \in Procs : EmbedKBReturn(p)
  \/ \E r \in Requests : QEmbedReturn(r)
  \/ \E r \in Requests : ChatReturn(r)
  \/ \E r \in Requests : TranslateReturn(r)

Spec == Init /\ [][Next]_vars

\* one request at a time, its completion answer recorded
NextTraced ==
  \/ FileWrite
  \/ FileDelete
  \/ WatchCallback
  \/ TimerFire
  \/ Arrive(1)
  \/ \E p \in {Boot, 1} : EmbedKBReturn(p)
  \/ QEmbedReturn(1)
  \/ ChatReturnTraced(1)
  \/ TranslateReturn(1)

TraceSpec == Init /\ [][NextTraced]_vars

\* the embedding variants alone: no watcher, no translation call
NextEmbedding ==
  \/ FileWrite
  \/ FileDelete
  \/ \E r \in Requests : Arrive(r)
  \/ \E p \in Procs : EmbedKBReturn(p)
  \/ \E r \in Requests : QEmbedReturn(r)
  \/ \E r \in Requests : ChatReturn(r)

InitEmbedding == Init /\ IsEmbedding(variant)

EmbeddingSpec == InitEmbedding /\ [][NextEmbedding]_vars

\* the two thresholded variants
InitThreshold == Init /\ IsThresholded(variant)

ThresholdSpec == InitThreshold /\ [][NextEmbedding]_vars

\* the two lexical variants
NextLexical ==
  \/ FileWrite
  \/ FileDelete
  \/ WatchCallback
  \/ TimerFire
  \/ \E r \in Requests : Arrive(r)
  \/ \E r \in Requests : ChatReturn(r)
  \/ \E r \in Requests : TranslateReturn(r)

InitLexical == Init /\ IsLexical(variant)

LexicalSpec == InitLexical /\ [][NextLexical]_vars

\* the directory watcher alone, in time
NextWatch ==
  \/ \E d \in ClockSteps : Elapse(d)
  \/ \E filename \in FileNames : WatchEvent(filename)
  \/ TimerExpire

InitWatch == Init /\ IsLexical(variant) /\ apiKey /\ file.exists

WatchSpec == InitWatch /\ [][NextWatch]_vars

\* every outbound call eventually returns, fails or times out
Fairness ==
  /\ \A p \in Procs : WF_vars(EmbedKBReturn(p))
  /\ \A r \in Requests :
       WF_vars(QEmbedReturn(r)) /\ WF_vars(ChatReturn(r)) /\ WF_vars(TranslateReturn(r))

LiveSpec == Spec /\ Fairness

(***************************************************************************)
(* Functions of the service applied on their own, to arguments drawn from  *)
(* bounded sets.                                                           *)
(***************************************************************************)
MaxPieces == 2

\* the texts made of at most n of the given pieces
RECURSIVE Concats(_, _)
Concats(pieces, n) ==
  IF n = 0 THEN { << >> }
  ELSE LET shorter == Concats(pieces, n - 1)
       IN  shorter \cup { t \o q : t \in shorter, q \in pieces }

\* the service at rest, one application pending
Applied(calls) ==
  /\ ServiceInit /\ variant = "G" /\ apiKey /\ file.exists
  /\ call \in calls
  /\ ret = NotReturned

\* the pending application returns value
Return(fn, value) ==
  /\ call.fn = fn
  /\ ~ret.done
  /\ ret' = [done |-> TRUE, val |-> value]
  /\ UNCHANGED << variant, apiKey, file, KB, kbSrc, lastKBModified, RAW_TEXT,
                  fsEvent, watchTimer, proc, quiet, failed, trace, call, watch >>

\* String(text || "")
ArgText(a) == IF a.null THEN << >> ELSE a.s

\* pieces of text in each script and with each marker of detectLang
LangPieces ==
  { << "U+0E01" >>, << "U+3042" >>, << "U+4E2D" >>, << "U+AC00" >>,
    << "U+00F1" >>, << "U+00C9" >>, << "x" >>, << " " >>,
    << "h", "o", "l", "a" >>, << "c", "i", "a", "o" >>,
    << "m", "e", "n", "U+00F9" >>, << "C", "I", "A", "O" >>,
    << "p", "e", "r", " " >>, << "f", "a", "v", "o", "r", "e" >> }

DetectLangCalls ==
  { [fn |-> "detectLang", arg |-> [null |-> TRUE, s |-> << >>]] } \cup
  { [fn |-> "detectLang", arg |-> [null |-> FALSE, s |-> t]] :
      t \in Concats(LangPieces, MaxPieces) }

ApplyDetectLang == Return("detectLang", detectLang(ArgText(call.arg)))

LangInit == Applied(DetectLangCalls)

LangSpec == LangInit /\ [][ApplyDetectLang]_vars

\* documents: sections under a menu heading and under another heading, a
\* Thai menu heading with CRLF line ends, a line that is no heading, an
\* indented heading, a word of eight letters, a line ending in white space
DocPieces ==
  { << "#", " ", "M", "e", "n", "u", "\n", "t", "e", "a", " ", "1", "0", "\n" >>,
    << "#", "#", " ", "B", "\n", "b", ":", " ", "1", "\n" >>,
    << "#", " ", "U+0E40", "U+0E21", "U+0E19", "U+0E39", "\r", "\n", "x", "\r", "\n" >>,
    << "m", "e", "n", "u", ":", " ", "t", "e", "a", "\n" >>,
    << " ", "#", "m", "e", "n", "U+00F9" >>,
    << "a", "b", "c", "d", "e", "f", "g", "h" >>,
    << "a", " ", "b", " ", "\n" >> }

Docs == Concats(DocPieces, MaxPieces)

Queries ==
  { << "m", "e", "n", "u" >>,
    << "h", "i" >>,
    << "t", "e", "a", " ", "b" >>,
    << "U+0E40", "U+0E21", "U+0E19", "U+0E39" >>,
    << "M", "E", "N", "U+00DA", " ", "x" >> }

MaxCharsArgs == { 4, 9, DefaultMaxChars }

ContextCalls ==
  { [fn |-> "extractRelevantContext", raw |-> d, q |-> q, maxChars |-> m,
     askKB |-> a] : d \in Docs, q \in Queries, m \in MaxCharsArgs, a \in BOOLEAN }

LimitCalls ==
  { [fn |-> "takeContextLimit", s |-> d, maxChars |-> m] :
      d \in Docs, m \in MaxCharsArgs }

ApplyExtractRelevantContext ==
  Return("extractRelevantContext",
         extractRelevantContext(call.raw, call.q, call.maxChars, call.askKB))

ApplyTakeContextLimit ==
  Return("takeContextLimit", takeContextLimit(call.s, call.maxChars))

ContextInit == Applied(ContextCalls \cup LimitCalls)

ContextNext == ApplyExtractRelevantContext \/ ApplyTakeContextLimit

ContextSpec == ContextInit /\ [][ContextNext]_vars

MaxLines == 12

Alphabet ==
  << "a", "b", "c", "d", "e", "f", "g", "h", "i", "j", "k", "l", "m",
     "n", "o", "p", "q", "r", "s", "t", "u", "v", "w", "x", "y", "z" >>

\* line i of a document when it shares no token with the question
FillerLine(i) == << "z", Alphabet[i] >>

\* lines that share one token and two tokens (one a booster) with it
HotLines == { << "a" >>, << "i", "g", " ", "a" >> }

\* where the lines that share a token stand: up to one more than are taken
HotPlacings ==
  UNION { [H -> HotLines] :
            H \in { S \in SUBSET (1..MaxLines) : Cardinality(S) <= MaxAnchors + 1 } }

\* documents of MaxLines lines
LongDocs ==
  { Join([i \in 1..MaxLines |-> IF i \in DOMAIN h THEN h[i] ELSE FillerLine(i)],
         << "\n" >>) : h \in HotPlacings }

WindowCalls ==
  { [fn |-> "extractRelevantContext", raw |-> d, q |-> << "a", " ", "i", "g" >>,
     maxChars |-> DefaultMaxChars, askKB |-> a] : d \in LongDocs, a \in BOOLEAN }

WindowInit == Applied(WindowCalls)

WindowSpec == WindowInit /\ [][ApplyExtractRelevantContext]_vars

\* lines for the scoring loop: one with words, one fact-like, one naming the
\* opening hours, one plain, one without a token, one fact-like without a token
ScoredPieces ==
  { << "h", "i", " ", "x", "\n" >>,
    << "b", ":", " ", "1", "\n" >>,
    << "U+0E40", "U+0E27", "U+0E25", "U+0E32", "U+0E40", "U+0E1B", "U+0E34", "U+0E14",
       " ", "9", "\n" >>,
    << "z", "z", "\n" >>,
    << ":", "\n" >>,
    << ":", " ", ":", "\n" >> }

ScoredQueries ==
  { << "h", "i" >>, << "q" >>, << >>, << "U+0E40", "U+0E27", "U+0E25", "U+0E32" >> }

OverlapCalls ==
  { [fn |-> "extractRelevantContext", raw |-> d, q |-> q, maxChars |-> m,
     askKB |-> a] : d \in Concats(ScoredPieces, MaxPieces), q \in ScoredQueries,
                    m \in { 4, DefaultMaxChars }, a \in BOOLEAN }

OverlapInit == Applied(OverlapCalls)

OverlapSpec == OverlapInit /\ [][ApplyExtractRelevantContext]_vars

SplitCalls ==
  { [fn |-> f, text |-> d] : f \in {"chunkTextBySection", "splitSections"}, d \in Docs }

ApplyChunkTextBySection == Return("chunkTextBySection", chunkTextBySection(call.text))

ApplySplitSections == Return("splitSections", splitSections(call.text))

SplitInit == Applied(SplitCalls)

SplitNext == ApplyChunkTextBySection \/ ApplySplitSections

SplitSpec == SplitInit /\ [][SplitNext]_vars

MaxChunks == 5

\* embeddings a cached chunk can have
ChunkVectors == { << 1, 0 >>, << 1, 1 >>, << 0, 1 >> }

\* caches of up to MaxChunks chunks, chunk i with the text "# i"
Caches ==
  UNION { { [i \in 1..n |-> [text |-> << "#", " ", ToString(i) >>,
                             embedding |-> Arr(e[i])]] :
              e \in [1..n -> ChunkVectors] } : n \in 0..MaxChunks }

TopCalls ==
  { [fn |-> "top", kb |-> kb, qEmb |-> Arr(q), v |-> v] :
      kb \in Caches, q \in QueryVectors, v \in {"E75", "E90"} }

\* const top = KB.map(...).sort(...).filter(...).slice(0, 4); context = ...
ApplyTop ==
  Return("top", [top |-> TopChunks(call.kb, call.qEmb, call.v),
                 context |-> ContextOf(TopChunks(call.kb, call.qEmb, call.v))])

TopInit == Applied(TopCalls)

TopSpec == TopInit /\ [][ApplyTop]_vars

(***************************************************************************)
(* Properties.                                                             *)
(***************************************************************************)
\* request r is answered in this step
Answers(r) == proc[r].pc # "done" /\ proc'[r].pc = "done"

\* request r arrives in this step
Arrives(r) == proc[r].pc = "idle" /\ proc'[r].pc # "idle"

\* C1: in every variant a request that arrives while the credential is unset
\* is answered 500, whatever its message; one whose trimmed message is empty,
\* the credential being set, is answered 400; either rejection is the whole
\* step: no embedding call, no completion or translation call, no load of the
\* knowledge base, and the chunk cache, the document cache and the recorded
\* modification time are as before
C1_Rejections ==
  [][\A r \in Requests :
       Arrives(r) =>
         LET q == proc'[r]
             rejected == ~apiKey \/ q.msg = << >>
         IN  /\ ~apiKey => q.pc = "done" /\ q.status = 500
             /\ (apiKey /\ q.msg = << >>) => q.pc = "done" /\ q.status = 400
             /\ rejected =>
                   /\ q.nResp = 1 /\ q.reply = NoReply
                   /\ q.nKb = 0 /\ q.nQ = 0 /\ q.nChat = 0 /\ q.nTr = 0
                   /\ UNCHANGED << KB, kbSrc, lastKBModified, RAW_TEXT >>]_vars

\* a request with an empty message was rejected, 500 without the credential
\* and 400 with it, at a moment when a valid request would have loaded the
\* knowledge base
C1_Witness ==
  /\ file.exists
  /\ IF IsEmbedding(variant) THEN file.mtime # lastKBModified
      ELSE IsLexical(variant) /\ RAW_TEXT = << >>
  /\ \E r \in Requests :
       /\ proc[r].pc = "done" /\ proc[r].msg = << >>
       /\ proc[r].status = (IF apiKey THEN 400 ELSE 500)
       /\ proc[r].detail = (IF apiKey THEN "message-required" ELSE "missing-key")

\* C2: in the thresholded embedding variants, a valid request whose best
\* chunk similarity is at most the threshold (0.75, 0.9), the empty cache
\* included, has an empty context, is answered 200 with the fixed
\* no-information reply, once, and makes no completion call
C2_BelowThreshold ==
  \A r \in Requests :
    (IsThresholded(variant) /\ proc[r].low) =>
      /\ proc[r].pc = "done" /\ proc[r].nResp = 1
      /\ proc[r].ctx = << >>
      /\ proc[r].status = 200 /\ proc[r].reply = NoInfoReply
      /\ proc[r].nChat = 0

\* a request scored its query against a non-empty cache, no chunk passed the
\* cut-off, and it was answered
C2_Witness ==
  /\ IsThresholded(variant)
  /\ \E r \in Requests :
       proc[r].low /\ proc[r].scored # "none" /\ proc[r].nQ = 1 /\ proc[r].pc = "done"

\* request r passes both checks of the handler in this step
ArrivesValid(r) == Arrives(r) /\ apiKey /\ proc'[r].msg # << >>

\* C3 (as the code has it): a valid request that finds the knowledge file
\* absent never throws in the loader.  In the thresholded variants the chunk
\* cache is emptied and the request is answered at once, 200 with the fixed
\* no-information reply, no upstream call made.  In the JSON-guarded variant
\* the chunk cache is emptied and the request goes on to its completion call
\* with an empty context; in the lexical variants the document cache stays as
\* it was and the request goes on to its completion call
C3_AbsentFile ==
  [][\A r \in Requests :
       (ArrivesValid(r) /\ ~file.exists) =>
         LET q == proc'[r]
         IN  /\ IsThresholded(variant) =>
                   /\ KB' = << >>
                   /\ q.pc = "done" /\ q.status = 200 /\ q.reply = NoInfoReply
                   /\ q.nKb = 0 /\ q.nQ = 0 /\ q.nChat = 0
             /\ variant = "J" =>
                   /\ KB' = << >>
                   /\ q.pc = "completion" /\ q.ctx = << >>
                   /\ q.nKb = 0 /\ q.nQ = 0 /\ q.nChat = 1
             /\ IsLexical(variant) =>
                   /\ RAW_TEXT' = RAW_TEXT
                   /\ q.pc = "completion" /\ q.nChat = 1]_vars

\* a valid request that found the file absent is waiting for the answer of
\* its completion call
C3_Witness ==
  /\ ~file.exists
  /\ \E r \in Requests : proc[r].obs = 0 /\ proc[r].pc = "completion"

\* C3 as stated: in every variant with a knowledge base, a valid request that
\* finds the file absent leaves the cache empty and is answered 200 with a
\* fixed no-information reply of the code (the short-circuit reply, or the
\* fallback of the JSON guard)
C3_Stated ==
  [][\A r \in Requests :
       /\ (variant # "P" /\ ArrivesValid(r) /\ ~file.exists) =>
             KB' = << >> /\ RAW_TEXT' = << >>
       /\ (/\ variant # "P"
            /\ Answers(r)
            /\ \/ ArrivesValid(r) /\ ~file.exists
               \/ proc[r].obs = 0) =>
             /\ proc'[r].status = 200
             /\ proc'[r].reply \in {NoInfoReply, JsonFallbackReply}]_vars

\* the two fields of the envelope the recorded completion answer carries;
\* both undefined when the output is no JSON object
TracedField(name) ==
  IF trace.out.kind = "json" /\ trace.out.val.t = "obj"
  THEN (IF name = "no_answer" THEN trace.out.val.no_answer ELSE trace.out.val.answer)
  ELSE JUndef

\* the request of a traced run of "J" has been answered after a 2xx completion
EnvelopeAnswered ==
  variant = "J" /\ proc[1].pc = "done" /\ trace.status = "2xx"

\* C4 (as the code has it): in the structured-answer variant, after a 2xx
\* completion the response is always 200; the reply is the fixed fallback
\* when the output is no JSON object, or its no_answer is truthy, or its
\* answer is missing or falsy (null, false, 0, the empty string); otherwise
\* it is String(answer) trimmed, a no_answer of false notwithstanding
C4_Envelope ==
  EnvelopeAnswered =>
    /\ proc[1].status = 200 /\ proc[1].nResp = 1
    /\ proc[1].reply =
         IF Truthy(TracedField("no_answer")) \/ ~Truthy(TracedField("answer"))
         THEN JsonFallbackReply
         ELSE Trim(StringOf(TracedField("answer")))

\* the model sent {"no_answer": false, "answer": "ok"} and the reply is "ok"
C4_Witness ==
  /\ EnvelopeAnswered
  /\ trace.out = JsonOutput(JObj(JBool(FALSE), JStr(<< "o", "k" >>)))
  /\ proc[1].reply = << "o", "k" >>

\* C4 as stated: the reply is the fixed fallback when the output is no JSON,
\* or a no_answer field is present, or there is no answer field; otherwise it
\* is the trimmed answer; the status is 200 in every case
C4_Stated ==
  EnvelopeAnswered =>
    /\ proc[1].status = 200
    /\ proc[1].reply =
         IF TracedField("no_answer") # JUndef \/ TracedField("answer") = JUndef
         THEN JsonFallbackReply
         ELSE Trim(StringOf(TracedField("answer")))

\* the request of a traced run of a lexical variant has been answered after
\* its completion call came back with a status of class st
LexicalAnswered(st) ==
  IsLexical(variant) /\ proc[1].pc = "done" /\ trace.status = st

\* C5 (as the code has it): in the lexical variants a 4xx answer of the
\* completion endpoint makes the request answer 502 with the upstream body
\* (an empty object when there is none); a 5xx answer makes axios throw and
\* the request answer 500 from the catch block, with the upstream body or,
\* without one, the error message; no reply text and no translation call in
\* either case, and one response
C5_UpstreamError ==
  /\ LexicalAnswered("4xx") =>
        /\ proc[1].status = 502 /\ proc[1].reply = NoReply
        /\ proc[1].detail = (IF trace.body THEN "upstream-body" ELSE "empty-object")
        /\ proc[1].nTr = 0 /\ proc[1].nResp = 1
  /\ LexicalAnswered("5xx") =>
        /\ proc[1].status = 500 /\ proc[1].reply = NoReply
        /\ proc[1].detail = (IF trace.body THEN "upstream-body" ELSE "message")
        /\ proc[1].nTr = 0 /\ proc[1].nResp = 1

\* a 5xx answer of the completion endpoint, body attached, was answered 500
C5_Witness ==
  /\ LexicalAnswered("5xx") /\ trace.body
  /\ proc[1].status = 500 /\ proc[1].detail = "upstream-body"

\* C5 as stated: in the lexical variants any non-2xx answer of the completion
\* endpoint, 4xx or 5xx, makes the request answer 502 with the upstream body
\* attached and no reply text
C5_Stated ==
  (LexicalAnswered("4xx") \/ LexicalAnswered("5xx")) =>
    /\ proc[1].status = 502 /\ proc[1].reply = NoReply
    /\ trace.body => proc[1].detail = "upstream-body"

\* C6: every outbound call eventually returning, failing or timing out, every
\* /chat request of every variant that has arrived is eventually answered,
\* and no request is ever answered twice
C6_ExactlyOneResponse ==
  /\ [](\A r \in Requests : proc[r].nResp <= 1)
  /\ \A r \in Requests :
       (proc[r].pc # "idle") ~> (proc[r].pc = "done" /\ proc[r].nResp = 1)

\* every request has been answered once, one of them from the catch block
\* after its completion call failed
C6_Witness ==
  /\ \A r \in Requests : proc[r].pc = "done" /\ proc[r].nResp = 1
  /\ \E r \in Requests :
       proc[r].nChat = 1 /\ proc[r].status = 500 /\ proc[r].detail = "message"

\* C7 as stated: in the embedding variants, once an ensureKBLoaded call has
\* completed and the file has not changed since, the next call (the one a
\* valid request makes on arrival) issues no embedding request and leaves the
\* chunk cache and the recorded modification time exactly as they were
C7_Stated ==
  [][\A r \in Requests :
       (IsEmbedding(variant) /\ quiet /\ ArrivesValid(r)) =>
         /\ proc'[r].nKb = 0
         /\ KB' = KB
         /\ lastKBModified' = lastKBModified]_vars

\* C8 as stated: in the embedding variants, under any interleaving, the
\* cache a request scores its query against was built from the file version
\* whose modification time the request observed in its own ensureKBLoaded
\* check
C8_Stated ==
  \A r \in Requests :
    IsEmbedding(variant) => proc[r].scored \in {"none", "observed"}

\* the cache the current file gives when every chunk embedding arrives
CurrentChunksEmbedded ==
  LET chunks == SplitOf(variant, FileText(file.ver))
  IN  [i \in 1..Len(chunks) |->
         [text |-> chunks[i], embedding |-> Arr(EmbeddingOf(chunks[i]))]]

\* C9 as stated: in the embedding variants, after the embedding call of a
\* reload has failed, a valid request that arrives with the file unchanged
\* and no reload under way either has the chunks embedded again or finds the
\* cache holding the current file's chunks with their embeddings
C9_Stated ==
  [][\A r \in Requests :
       (/\ IsEmbedding(variant)
        /\ failed /\ file.exists
        /\ \A p \in Procs : proc[p].pc # "kbEmbed"
        /\ ArrivesValid(r)) =>
         \/ proc'[r].pc = "kbEmbed"
         \/ KB' = CurrentChunksEmbedded]_vars

\* C10 as stated: in the embedding variants, no /chat request is answered
\* with an error status because an embedding failed or is missing, and the
\* context a request builds holds no chunk whose embedding is null or absent
C10_Stated ==
  [][\A r \in Requests :
       (IsEmbedding(variant) /\ proc[r].pc \in {"kbEmbed", "qEmbed"}
          /\ proc'[r].pc # proc[r].pc) =>
         /\ proc'[r].status # 500
         /\ proc[r].pc = "qEmbed" =>
               \A i \in 1..Len(proc'[r].ctx) :
                 \A k \in 1..Len(KB) :
                   KB[k].text = proc'[r].ctx[i].text => KB[k].embedding.kind = "array"]_vars

\* a letter, of any alphabet
IsLetter(c) == IsWordChar(c) \/ InRange(c, 192, 55203)

\* word w stands in s with no letter right before or right after it
OccursAsWord(s, w) ==
  \E i \in 1..Len(s) :
    /\ MatchAt(s, i, w)
    /\ i = 1 \/ ~IsLetter(s[i - 1])
    /\ i + Len(w) > Len(s) \/ ~IsLetter(s[i + Len(w)])

\* a marker of the class is present in the text: a character of the script,
\* a diacritic of the language, or one of its words or phrases
MarkerPresent(text, class) ==
  LET low == Lower(text)
  IN  IF class = "th" THEN \E i \in 1..Len(text) : IsThaiChar(text[i])
      ELSE IF class = "ja" THEN \E i \in 1..Len(text) : IsKanaChar(text[i])
      ELSE IF class = "zh" THEN \E i \in 1..Len(text) : IsHanChar(text[i])
      ELSE IF class = "ko" THEN \E i \in 1..Len(text) : IsHangulChar(text[i])
      ELSE IF class = "es"
      THEN \/ \E i \in 1..Len(low) : low[i] \in SpanishMarks
           \/ \E w \in SpanishWords : OccursAsWord(low, w)
           \/ HasPhrase(low, << "p", "o", "r" >>, << "f", "a", "v", "o", "r" >>)
      ELSE \/ \E w \in ItalianWords : OccursAsWord(low, w)
           \/ HasPhrase(low, << "p", "e", "r" >>, << "f", "a", "v", "o", "r", "e" >>)

LangOrder == << "th", "ja", "zh", "ko", "es", "it" >>

\* C11 as stated: detectLang returns, for every input, the first class in the
\* order th, ja, zh, ko, es, it whose marker is present in the text, and en
\* when none is present
C11_Stated ==
  (call.fn = "detectLang" /\ ret.done) =>
    LET text == ArgText(call.arg)
        present == { k \in 1..6 : MarkerPresent(text, LangOrder[k]) }
    IN  /\ ret.val \in {"th", "ja", "zh", "ko", "es", "it", "en"}
        /\ present = {} => ret.val = "en"
        /\ present # {} =>
              \E k \in present : ret.val = LangOrder[k] /\ \A j \in present : k <= j

\* the lines of the document that are headings matching the menu pattern
MenuHeadings(lines) ==
  { i \in 1..Len(lines) :
      IsHeaderLine(lines[i]) /\ TestPattern(MenuPattern, lines[i]) }

\* lines start..end-1 are the section of the heading at start
IsSectionOf(lines, start, end) ==
  /\ end = Len(lines) + 1 \/ IsHeaderLine(lines[end])
  /\ \A j \in (start + 1)..(end - 1) : ~IsHeaderLine(lines[j])

\* out is text, whole when it fits maxChars and else a prefix of it of at
\* most maxChars characters followed by the ellipsis
IsTextOrCut(out, text, maxChars) ==
  IF Len(text) <= maxChars THEN out = text
  ELSE \E n \in 0..maxChars : out = SubSeq(text, 1, n) \o Ellipsis

\* C12: in strict mode, for a query matching the menu pattern and a document
\* with a heading line matching the menu pattern, extractRelevantContext
\* returns the section of the first such heading (the heading line and every
\* line after it up to the next heading), whole or cut to maxChars, whatever
\* the scores of the lines
C12_MenuSection ==
  (call.fn = "extractRelevantContext" /\ ret.done /\ call.askKB /\ MatchesMenu(call.q)) =>
    LET lines == SplitLines(call.raw)
        heads == MenuHeadings(lines)
    IN  heads # {} =>
          \E start \in heads : \E end \in (start + 1)..(Len(lines) + 1) :
            /\ \A i \in heads : start <= i
            /\ IsSectionOf(lines, start, end)
            /\ IsTextOrCut(ret.val, Join(SubSeq(lines, start, end - 1), << "\n" >>),
                           call.maxChars)

\* a menu query in strict mode got the menu section, another section follows
\* it in the document, and the line scores alone give another excerpt
C12_Witness ==
  /\ call.fn = "extractRelevantContext" /\ ret.done
  /\ call.askKB /\ MatchesMenu(call.q)
  /\ call.raw = << "#", " ", "M", "e", "n", "u", "\n", "t", "e", "a", " ", "1", "0", "\n" >> \o
                << "#", "#", " ", "B", "\n", "b", ":", " ", "1", "\n" >>
  /\ ret.val = << "#", " ", "M", "e", "n", "u", "\n", "t", "e", "a", " ", "1", "0" >>
  /\ TokenContext(call.raw, call.q, call.maxChars, call.askKB) # ret.val

\* the text the application would return with no limit on its length
Uncut ==
  IF call.fn = "takeContextLimit" THEN call.s
  ELSE extractRelevantContext(call.raw, call.q, 4 * Len(call.raw) + 16, call.askKB)

\* C13 as stated: a text that is cut (heading shortcut, joined windows,
\* takeContextLimit) is never cut inside a word, for every input, also one
\* with no white space in its first maxChars characters
C13_Stated ==
  (call.fn \in {"extractRelevantContext", "takeContextLimit"} /\ ret.done
     /\ ret.val # Uncut) =>
    LET n == Len(ret.val) - Len(Ellipsis)
    IN  n = 0 \/ IsWS(Uncut[n]) \/ IsWS(Uncut[n + 1])

\* a line starting with "#"
StartsWithHash(line) == line # << >> /\ line[1] = "#"

\* the chunks stand in the text one after the other, from position from on
RECURSIVE InOrderFrom(_, _, _)
InOrderFrom(chunks, text, from) ==
  \/ chunks = << >>
  \/ \E i \in from..Len(text) :
       /\ MatchAt(text, i, Head(chunks))
       /\ \A j \in from..(i - 1) : ~MatchAt(text, j, Head(chunks))
       /\ InOrderFrom(Tail(chunks), text, i + Len(Head(chunks)))

\* C14 as stated: every chunk of the section splitter starts with a heading
\* line (a line starting with one to six "#") and holds no other heading
\* line, and the chunks come in the order of the document
C14_Stated ==
  (call.fn \in {"chunkTextBySection", "splitSections"} /\ ret.done) =>
    /\ \A k \in 1..Len(ret.val) :
         LET ls == SplitLines(ret.val[k])
         IN  /\ StartsWithHash(ls[1])
             /\ \A j \in 2..Len(ls) : ~StartsWithHash(ls[j])
    /\ InOrderFrom(ret.val, call.text, 1)

\* the texts of the cached chunks
ChunkTexts(kb) == [i \in 1..Len(kb) |-> kb[i].text]

\* C15 as stated, in the case it names: in the embedding variants, the
\* cache holds the current file's chunks with their embeddings and the
\* recorded modification time is the file's; a reload that started earlier
\* completes, its embedding call answered in full, and no reload is in
\* flight any more: the cached chunk texts are still the split of the file's
\* current content
C15_Stated ==
  [][\A p \in Procs :
       (/\ IsEmbedding(variant)
        /\ file.exists /\ lastKBModified = file.mtime
        /\ KB = CurrentChunksEmbedded
        /\ proc[p].pc = "kbEmbed" /\ proc'[p].pc # "kbEmbed"
        /\ KB' # << >>
        /\ \A i \in 1..Len(KB') : KB'[i].embedding.kind = "array"
        /\ \A x \in Procs : proc'[x].pc # "kbEmbed") =>
         ChunkTexts(KB') = SplitOf(variant, FileText(file.ver))]_vars

\* the cache holds the chunk list of file version ver, entry i with the
\* embedding of chunk i or, where the answer was shorter than the list or
\* failed, none
BuiltFromVersion(kb, ver) ==
  LET chunks == SplitOf(variant, FileText(ver))
  IN  /\ Len(kb) = Len(chunks)
      /\ \A i \in 1..Len(kb) :
           /\ kb[i].text = chunks[i]
           /\ kb[i].embedding \in { Arr(EmbeddingOf(chunks[i])), Undefined, Null }

\* C16: under any interleaving of requests and reloads, the chunk cache is
\* at every moment empty or the complete chunk list of one file version,
\* entry i pairing chunk i with the embedding returned for it: no state mixes
\* chunks of one version with chunks or embeddings of another
C16_SingleVersion ==
  IsEmbedding(variant) =>
    KB = << >> \/ \E ver \in {1, 2} : BuiltFromVersion(KB, ver)

\* a request reads the cache of an earlier file version while the reload of
\* the current one is awaiting its embeddings
C16_Witness ==
  /\ IsEmbedding(variant)
  /\ KB # << >> /\ kbSrc # file.mtime
  /\ \E r \in Requests : \E p \in Procs :
       /\ r # p
       /\ proc[r].pc = "completion" /\ proc[r].ctx # << >>
       /\ proc[p].pc = "kbEmbed"

\* the score of chunk k of the cache of the call
ScoreAt(k) == cosine(call.qEmb, call.kb[k].embedding)

\* the threshold of the call's variant: 0.75, 0.9
StatedThreshold == IF call.v = "E75" THEN [n |-> 3, d |-> 4] ELSE [n |-> 9, d |-> 10]

\* C17: in the thresholded variants the context is built from at most 4
\* chunks of the cache, each scoring strictly above the threshold, in
\* non-increasing order of score and numbered 1..k in that order; a chunk
\* left out scores no higher than any chunk included or does not exceed the
\* threshold; chunks of equal score keep their document order
C17_TopChunks ==
  (call.fn = "top" /\ ret.done) =>
    LET top == ret.val.top
        ctx == ret.val.context
        t == StatedThreshold
        taken == { top[i].idx : i \in 1..Len(top) }
    IN  /\ Len(top) <= 4
        /\ Len(ctx) = Len(top)
        /\ \A i \in 1..Len(top) :
             /\ top[i].idx \in 1..Len(call.kb)
             /\ top[i].score = ScoreAt(top[i].idx)
             /\ AboveThreshold(top[i].score, t)
             /\ ctx[i] = [ord |-> i, text |-> call.kb[top[i].idx].text]
        /\ \A i, j \in 1..Len(top) :
             i < j => /\ top[i].idx # top[j].idx
                      /\ ~ScoreGT(top[j].score, top[i].score)
                      /\ top[i].score = top[j].score => top[i].idx < top[j].idx
        /\ \A k \in (1..Len(call.kb)) \ taken :
             \/ ~AboveThreshold(ScoreAt(k), t)
             \/ \A i \in 1..Len(top) : ~ScoreGT(ScoreAt(k), top[i].score)

\* five chunks score above the threshold: four are taken, two of them with
\* equal scores, and the one left out scores above the threshold too
C17_Witness ==
  /\ call.fn = "top" /\ ret.done
  /\ Len(call.kb) = 5 /\ Len(ret.val.top) = 4
  /\ \A k \in 1..5 : AboveThreshold(ScoreAt(k), StatedThreshold)
  /\ ScoreGT(ret.val.top[1].score, ret.val.top[4].score)
  /\ ret.val.top[1].score = ret.val.top[2].score

\* the message matches at least one topic pattern
MatchesTopic(message) ==
  \E i \in 1..Len(KB_TOPICS) : TestPattern(KB_TOPICS[i], message)

\* C18: in the lexical variants a valid request is composed in exactly one
\* of two modes, strict if and only if its message matches a topic pattern;
\* the completion call has temperature 0 in strict mode and 0.7 in general
\* mode; the strict prompt carries the excerpt retrieved for the message, or
\* the placeholder when there is none, and the general prompt carries the
\* whole document cut to its limit
C18_Modes ==
  [][\A r \in Requests :
       (IsLexical(variant) /\ ArrivesValid(r)) =>
         LET pr == proc'[r].prompt
             message == proc'[r].msg
             excerpt == extractRelevantContext(RAW_TEXT', message, 2000, TRUE)
         IN  /\ proc'[r].pc = "completion"
             /\ pr.mode \in {"strict", "general"}
             /\ pr.mode = "strict" <=> MatchesTopic(message)
             /\ pr.temperature = (IF pr.mode = "strict" THEN 0 ELSE 7)
             /\ pr.mode = "strict" =>
                  pr.context = (IF excerpt = << >> THEN NoFactsPlaceholder ELSE excerpt)
             /\ pr.mode = "general" => IsTextOrCut(pr.context, RAW_TEXT', 20000)]_vars

\* one request is in flight in strict mode with an excerpt of the document,
\* another in general mode with the document
C18_Witness ==
  /\ IsLexical(variant)
  /\ \E r1, r2 \in Requests :
       /\ proc[r1].pc = "completion" /\ proc[r1].prompt.mode = "strict"
       /\ proc[r1].prompt.context \notin { << >>, NoFactsPlaceholder }
       /\ proc[r2].pc = "completion" /\ proc[r2].prompt.mode = "general"
       /\ proc[r2].prompt.context # << >>

\* the reply the completion answer o carries
ModelReply(o) == Trim(ContentOf(o))

C20_NoRetry ==
  \A r \in Requests :
    /\ proc[r].nKb <= 1
    /\ proc[r].nQ <= 1
    /\ proc[r].nChat <= 1
    /\ proc[r].nTr <= 1

\* a request whose translation call failed has been answered 500, having
\* made one completion call and one translation call
C20_Witness ==
  /\ variant = "G"
  /\ \E r \in Requests :
       /\ proc[r].pc = "done" /\ proc[r].status = 500
       /\ proc[r].nChat = 1 /\ proc[r].nTr = 1

\* the events seen so far that name the knowledge file
KbEvents == { i \in 1..Len(watch.events) : watch.events[i].name = "kb" }

\* the last event of each burst: no event for the knowledge file follows it
\* by less than 300 ms
BurstEnds ==
  { i \in KbEvents :
      \A j \in KbEvents : j > i => watch.events[j].at - watch.events[i].at >= 300 }

\* the reloads are the ones the bursts call for, one each, in time order,
\* and at most one timer is pending
Debounced ==
  /\ Cardinality(watch.timers) <= 1
  /\ \A k \in 1..Len(watch.reloads) :
       /\ \E i \in BurstEnds : watch.reloads[k] = watch.events[i].at + 300
       /\ k > 1 => watch.reloads[k - 1] < watch.reloads[k]
  /\ \A i \in BurstEnds :
       /\ watch.events[i].at + 300 < watch.now
            => \E k \in 1..Len(watch.reloads) :
                 watch.reloads[k] = watch.events[i].at + 300
       /\ watch.events[i].at + 300 = watch.now
            => \/ \E k \in 1..Len(watch.reloads) : watch.reloads[k] = watch.now
               \/ \E t \in watch.timers : t.due = watch.now

\* C21: in the directory-watch variants a burst of events for the knowledge
\* file, each less than 300 ms after the one before, triggers exactly one
\* reload, 300 ms after the last event of the burst; an event for another
\* file (or without a file name) triggers no reload and leaves the pending
\* timer as it is; at most one reload timer is pending at any time
C21_Debounce ==
  [][ /\ Debounced'
      /\ \A n \in { "other", "null" } :
           watch'.events = Append(watch.events, [at |-> watch.now, name |-> n])
             => /\ watch'.timers = watch.timers
                /\ watch'.reloads = watch.reloads ]_vars

\* two events for the knowledge file less than 300 ms apart, then an event
\* for another file while the timer was pending: one reload has run, 300 ms
\* after the second event
C21_Witness ==
  /\ Len(watch.events) = 3
  /\ watch.events[1].name = "kb" /\ watch.events[2].name = "kb"
  /\ watch.events[3].name = "other"
  /\ watch.events[2].at - watch.events[1].at \in 1..299
  /\ watch.events[3].at \in (watch.events[2].at + 1)..(watch.events[2].at + 299)
  /\ watch.reloads = << watch.events[2].at + 300 >>
  /\ watch.timers = {}

\* C22 as stated: the text returned by extractRelevantContext and by
\* takeContextLimit is never longer than maxChars, the marker appended to a
\* text that was cut included
C22_Stated ==
  (call.fn \in {"extractRelevantContext", "takeContextLimit"} /\ ret.done) =>
    Len(ret.val) <= call.maxChars

\* the order of the stable sort: line i stands ahead of line j
Ahead(score, i, j) == score[i] > score[j] \/ (score[i] = score[j] /\ i < j)

\* picks are the best lines of positive score, up to 3, best first
AreTopThree(picks, score) ==
  LET positive == { i \in DOMAIN score : score[i] > 0 }
      rest == positive \ { picks[m] : m \in DOMAIN picks }
  IN  /\ Len(picks) = Min(3, Cardinality(positive))
      /\ \A m \in DOMAIN picks : picks[m] \in positive
      /\ \A m, n \in DOMAIN picks : m < n => Ahead(score, picks[m], picks[n])
      /\ \A m \in DOMAIN picks : \A j \in rest : Ahead(score, picks[m], j)

\* lines i - before .. i + after, clipped at both ends, joined by "\n"
ClippedWindow(lines, i, before, after) ==
  Join(SubSeq(lines, IF i - before < 1 THEN 1 ELSE i - before,
                     Min(Len(lines), i + after)), << "\n" >>)

\* the context returned in the token-overlap path, when it is not cut, is
\* the windows of the top three lines, each running from before lines ahead
\* of the line to after lines behind it, joined by "\n---\n" in that order
WindowsOfTopThree(before, after) ==
  (/\ call.fn = "extractRelevantContext" /\ ret.done
   /\ call.raw # << >> /\ ~(call.askKB /\ MatchesMenu(call.q))
   /\ (ret.val = << >> \/ ret.val[Len(ret.val)] # "U+2026")) =>
    LET lines == SplitLines(call.raw)
        score == Scores(lines, Range(tokenize(call.q)), call.askKB)
        positive == { i \in DOMAIN score : score[i] > 0 }
    IN  \E picks \in [1..Min(3, Cardinality(positive)) -> positive] :
          /\ AreTopThree(picks, score)
          /\ ret.val = Join([m \in DOMAIN picks |->
                               ClippedWindow(lines, picks[m], before, after)],
                            << "\n", "-", "-", "-", "\n" >>)

\* C23 as stated: each anchor expands to the 5 lines before it, the anchor
\* line and the 6 lines after it
C23_Stated == WindowsOfTopThree(5, 6)

\* C23, amended: in the token-overlap path the anchors are the 3 lines of
\* highest positive score (fewer when fewer exist, ties in document order),
\* each anchor expands to the 5 lines before it, the anchor line and the 5
\* lines after it (11 lines), clipped at the document's start and end, and
\* the windows are joined in anchor order with the separator "\n---\n"
C23_Windows == WindowsOfTopThree(5, 5)

\* four lines share a token with the question; the three anchors are lines
\* 6, 1 and 3 in this order, and the window of line 6 ends with line 11 of
\* the 12 lines
C23_Witness ==
  /\ call.fn = "extractRelevantContext" /\ ret.done /\ call.askKB
  /\ LET lines == SplitLines(call.raw)
     IN  /\ Len(lines) = 12
         /\ { i \in 1..12 : lines[i] \in HotLines } = { 1, 3, 6, 9 }
         /\ lines[6] = << "i", "g", " ", "a" >>
         /\ lines[1] = << "a" >> /\ lines[3] = << "a" >> /\ lines[9] = << "a" >>
         /\ ret.val =
              Join(SubSeq(lines, 1, 11), << "\n" >>) \o << "\n", "-", "-", "-", "\n" >>
              \o Join(SubSeq(lines, 1, 6), << "\n" >>) \o << "\n", "-", "-", "-", "\n" >>
              \o Join(SubSeq(lines, 1, 8), << "\n" >>)

\* some line of the document has a token of the question
SharesToken(raw, q) ==
  \E i \in DOMAIN SplitLines(raw) :
    Range(tokenize(SplitLines(raw)[i])) \cap Range(tokenize(q)) # {}

\* C24 as stated: a non-empty context is returned only when some line of the
\* document shares a token with the question
C24_Stated ==
  (call.fn = "extractRelevantContext" /\ ret.done /\ ret.val # << >>) =>
    SharesToken(call.raw, call.q)

\* C24, amended: a non-empty context is returned only when some line of the
\* document that has a token shares a token with the question, or has a colon
\* followed by a character that is not white space, or, in strict mode,
\* matches the opening-hours pattern; otherwise the context is empty
C24_ScoringLine ==
  (call.fn = "extractRelevantContext" /\ ret.done /\ ret.val # << >>) =>
    \E i \in DOMAIN SplitLines(call.raw) :
      LET line == SplitLines(call.raw)[i]
      IN  /\ tokenize(line) # << >>
          /\ \/ Range(tokenize(line)) \cap Range(tokenize(call.q)) # {}
             \/ \E j \in 1..Len(line) : \E k \in (j + 1)..Len(line) :
                  /\ line[j] \in { ":", "U+FF1A" }
                  /\ ~IsWS(line[k])
                  /\ \A n \in (j + 1)..(k - 1) : IsWS(line[n])
             \/ call.askKB /\ HoursLine(line)

\* the question shares no token with the document, no line is fact-like, and
\* the line of the opening hours is returned in strict mode
C24_Witness ==
  /\ call.fn = "extractRelevantContext" /\ ret.done /\ call.askKB
  /\ call.q = << "h", "i" >>
  /\ call.raw = << "U+0E40", "U+0E27", "U+0E25", "U+0E32", "U+0E40", "U+0E1B", "U+0E34",
                   "U+0E14", " ", "9", "\n", ":", " ", ":", "\n" >>
  /\ ~SharesToken(call.raw, call.q)
  /\ ret.val # << >>

\* C25 as stated: in every variant, every response of /chat with a success
\* status carries a reply that is a non-empty string, whatever the completion
\* (and the translation) returned
C25_Stated ==
  \A r \in Requests :
    (proc[r].pc = "done" /\ proc[r].status = 200) => proc[r].reply # << >>

====
